---- MODULE Spec2Model ----
(***************************************************************************)
(* Hybrid retrieval and graph-augmented reranking engine of Codex7.        *)
(*                                                                         *)
(* The module models, operation by operation:                              *)
(*   - the JSON graph store (src/src/graph/json_graph_client.py),          *)
(*   - the graph indexing pass of HybridSearch (_create_graph_data),       *)
(*   - score fusion (HybridSearch._combine_results),                       *)
(*   - the BM25 keyword ranker (BM25Search over rank_bm25.BM25Okapi),      *)
(*   - the tree-sitter entity/relationship extractor (GraphBuilder),       *)
(*   - the graph reranker and its depth traversals (GraphReranker),        *)
(*   - the conflict resolver (ConflictResolutionReranker),                 *)
(*   - the query path HybridSearch.search,                                 *)
(*   - a keyword index build running beside a keyword query,               *)
(*   - the search coroutines of one query running beside each other.       *)
(*                                                                         *)
(* Each component has its own specification (SpecNodes, SpecEdges,         *)
(* SpecIndex, SpecFusion, SpecBM25, SpecExtract, SpecRerank, SpecDepth,    *)
(* SpecConflict, SpecSearch, SpecRace, SpecQuery) over the shared          *)
(* variables; a specification leaves the other components' variables       *)
(* unchanged.                                                              *)
(***************************************************************************)
EXTENDS Integers, Sequences, FiniteSets, TLC

VARIABLES
    nodes,          \* JsonGraphClient.data["nodes"]: node id -> node data
    edges,          \* JsonGraphClient.data["edges"]: list of edge data
    last,           \* the last graph-store call: its arguments and what it found
    chunks,         \* the chunk list handed to the indexing pass
    passes,         \* indexing passes run since the store was last edited otherwise
    statsFirst,     \* get_database_stats() right after the first of those passes
    fusion_args,    \* the arguments of _combine_results
    combined_dict,  \* combined_dict of the call, with the combined scores
    final_results,  \* the list _combine_results returned
    mirror_dict,    \* combined_dict of the call with lists and weights swapped
    fusion_calls,   \* which of the two calls have been made
    bm25_corpus,    \* BM25Search.corpus: the token list of every document
    chunk_metadata, \* BM25Search.chunk_metadata
    bm25_index,     \* BM25Search.bm25: the BM25Okapi object, or None
    bm25_call,      \* the last BM25Search.search call: arguments, scores, results
    index_call,     \* the last BM25Search.index_chunks call: its chunk list
    uuid_next,      \* the uuid4 values drawn so far (Node.id default factory)
    extract_call,   \* the last build_graph_for_file call: its file and what it returned
    rerank_call,    \* the last GraphReranker.rerank_results call
    walk,           \* a depth traversal in progress: its graph, call stack and result
    conflict_call,  \* the last ConflictResolutionReranker.resolve_conflicts call
    search_call,    \* the last HybridSearch.search call
    bm25_build,     \* an index_chunks call in progress: its position and chunk list
    bm25_query,     \* a BM25 search call in progress: its position and locals
    query_runs      \* the HybridSearch.search coroutines of one query, by run

graphVars == <<nodes, edges, last, chunks, passes, statsFirst>>

fusionVars == <<fusion_args, combined_dict, final_results, mirror_dict, fusion_calls>>

bm25Vars == <<bm25_corpus, chunk_metadata, bm25_index, bm25_call, index_call>>

extractVars == <<uuid_next, extract_call>>

rerankVars == <<rerank_call>>

walkVars == <<walk>>

conflictVars == <<conflict_call>>

searchVars == <<search_call, query_runs>>

raceVars == <<bm25_build, bm25_query>>

vars == <<graphVars, fusionVars, bm25Vars, extractVars, rerankVars, walkVars,
          conflictVars, searchVars, raceVars>>

nonGraphVars == <<fusionVars, bm25Vars, extractVars, rerankVars, walkVars,
                  conflictVars, searchVars, raceVars>>

nonFusionVars == <<graphVars, bm25Vars, extractVars, rerankVars, walkVars,
                   conflictVars, searchVars, raceVars>>

nonBm25Vars == <<graphVars, fusionVars, extractVars, rerankVars, walkVars,
                 conflictVars, searchVars, raceVars>>

nonExtractVars == <<graphVars, fusionVars, bm25Vars, rerankVars, walkVars,
                    conflictVars, searchVars, raceVars>>

nonRerankVars == <<graphVars, fusionVars, bm25Vars, extractVars, walkVars,
                   conflictVars, searchVars, raceVars>>

nonWalkVars == <<graphVars, fusionVars, bm25Vars, extractVars, rerankVars,
                 conflictVars, searchVars, raceVars>>

nonConflictVars == <<graphVars, fusionVars, bm25Vars, extractVars, rerankVars,
                     walkVars, searchVars, raceVars>>

nonSearchVars == <<graphVars, fusionVars, bm25Vars, extractVars, rerankVars,
                   walkVars, conflictVars, raceVars>>

\* Everything but the keyword ranker's fields and the two calls in progress.
nonRaceVars == <<graphVars, fusionVars, extractVars, rerankVars, walkVars,
                 conflictVars, searchVars>>

\* No call made yet on the reranker, the traversals, the conflict resolver and
\* the query path.
NotCalled == [made |-> FALSE]

RerankIdle == rerank_call = NotCalled

WalkIdle == walk = NotCalled

ConflictIdle == conflict_call = NotCalled

\* No search coroutine created.
NoRuns == <<>>

SearchIdle ==
    /\ search_call = NotCalled
    /\ query_runs = NoRuns

\* No index_chunks call and no search call in progress.
RaceIdle ==
    /\ bm25_build = [pc |-> "idle"]
    /\ bm25_query = [pc |-> "idle"]

RestIdle == RerankIdle /\ WalkIdle /\ ConflictIdle /\ SearchIdle /\ RaceIdle

(***************************************************************************)
(* Bounds of the model.                                                    *)
(***************************************************************************)
MaxEdges == 2
MaxLine == 2
MaxPasses == 2

(***************************************************************************)
(* Generic helpers.                                                        *)
(***************************************************************************)
Range(s) == {s[i] : i \in DOMAIN s}

Min2(a, b) == IF a <= b THEN a ELSE b

\* Python dict: a function whose domain is the set of keys present.
EmptyDict == [k \in {} |-> 0]

DictSet(d, k, v) == [x \in (DOMAIN d) \cup {k} |-> IF x = k THEN v ELSE d[x]]

\* dict.update(other): keys of other override, the remaining keys are kept.
DictUpdate(d, other) ==
    [x \in (DOMAIN d) \cup (DOMAIN other) |-> IF x \in DOMAIN other THEN other[x] ELSE d[x]]

\* dict.get(key, default)
DictGet(d, k, default) == IF k \in DOMAIN d THEN d[k] ELSE default

(***************************************************************************)
(* The graph store: JsonGraphClient.                                       *)
(***************************************************************************)
RelTypes == {"CALLS", "DEFINED_IN", "CONTAINS", "HAS_METHOD", "INHERITS_FROM"}

NodeTypes == {"File", "Chunk", "Function", "Class"}

\* _initialize_data: no nodes, no edges.
InitialNodes == EmptyDict

InitialEdges == <<>>

\* self.data["nodes"][node_id] = node_data: the node dictionary is keyed by the
\* id alone, whatever the type of the node being written.
PutNode(ns, node_data) == DictSet(ns, node_data.id, node_data)

FileNodeData(file_path, language, file_type, metadata) ==
    [id |-> file_path, type |-> "File",
     properties |-> [path |-> file_path, language |-> language, file_type |-> file_type,
                     file_size |-> DictGet(metadata, "file_size", 0),
                     created_at |-> DictGet(metadata, "created_at", ""),
                     updated_at |-> DictGet(metadata, "updated_at", "")],
     file_path |-> file_path, line_number |-> 0]

ChunkNodeData(chunk) ==
    [id |-> chunk.id, type |-> "Chunk",
     properties |-> [content |-> chunk.content, start_line |-> chunk.start_line,
                     end_line |-> chunk.end_line, language |-> chunk.language,
                     chunk_type |-> chunk.chunk_type,
                     file_size |-> DictGet(chunk.metadata, "file_size", 0),
                     chunk_index |-> DictGet(chunk.metadata, "chunk_index", 0),
                     ast_node_type |-> DictGet(chunk.metadata, "ast_node_type", "")],
     file_path |-> chunk.file_path, line_number |-> chunk.start_line]

FunctionNodeData(name, qualified_name, file_path, line_number, metadata) ==
    [id |-> qualified_name, type |-> "Function",
     properties |-> [name |-> name, qualified_name |-> qualified_name,
                     file_path |-> file_path, line_number |-> line_number,
                     created_at |-> DictGet(metadata, "created_at", ""),
                     updated_at |-> DictGet(metadata, "updated_at", "")],
     file_path |-> file_path, line_number |-> line_number]

ClassNodeData(name, qualified_name, file_path, line_number, metadata) ==
    [id |-> qualified_name, type |-> "Class",
     properties |-> [name |-> name, qualified_name |-> qualified_name,
                     file_path |-> file_path, line_number |-> line_number,
                     created_at |-> DictGet(metadata, "created_at", ""),
                     updated_at |-> DictGet(metadata, "updated_at", "")],
     file_path |-> file_path, line_number |-> line_number]

create_file_node(ns, file_path, language, file_type, metadata) ==
    PutNode(ns, FileNodeData(file_path, language, file_type, metadata))

create_chunk_node(ns, chunk) == PutNode(ns, ChunkNodeData(chunk))

create_function_node(ns, name, qualified_name, file_path, line_number, metadata) ==
    PutNode(ns, FunctionNodeData(name, qualified_name, file_path, line_number, metadata))

create_class_node(ns, name, qualified_name, file_path, line_number, metadata) ==
    PutNode(ns, ClassNodeData(name, qualified_name, file_path, line_number, metadata))

\* The (source_id, target_id, relationship_type) triple of an edge.
Triple(e) == <<e.source_id, e.target_id, e.relationship_type>>

\* Positions of the stored edges carrying the triple.
EdgeIndexes(es, source_id, target_id, relationship_type) ==
    {i \in DOMAIN es : Triple(es[i]) = <<source_id, target_id, relationship_type>>}

FirstIndex(S) == CHOOSE i \in S : \A j \in S : i <= j

\* Mutant of create_relationship: it never looks for an existing edge.
AppendRelationshipAlways(es, source_id, target_id, relationship_type, properties) ==
    Append(es, [source_id |-> source_id, target_id |-> target_id,
                relationship_type |-> relationship_type, properties |-> properties])

\* create_relationship: the first stored edge with the triple has the new
\* properties merged into it; otherwise the edge is appended.
create_relationship(es, source_id, target_id, relationship_type, properties) ==
    LET found == EdgeIndexes(es, source_id, target_id, relationship_type)
    IN  IF found # {}
        THEN [es EXCEPT ![FirstIndex(found)].properties = DictUpdate(@, properties)]
        ELSE Append(es, [source_id |-> source_id, target_id |-> target_id,
                         relationship_type |-> relationship_type,
                         properties |-> properties])

\* Mutant of create_file_chunk_relationship: it appends the CONTAINS edge itself
\* instead of going through create_relationship.
AppendFileChunkEdge(es, file_path, chunk_id) ==
    Append(es, [source_id |-> file_path, target_id |-> chunk_id,
                relationship_type |-> "CONTAINS", properties |-> EmptyDict])

create_file_chunk_relationship(es, file_path, chunk_id) ==
    create_relationship(es, file_path, chunk_id, "CONTAINS", EmptyDict)

create_function_chunk_relationship(es, function_qualified_name, chunk_id) ==
    create_relationship(es, function_qualified_name, chunk_id, "DEFINED_IN", EmptyDict)

create_class_chunk_relationship(es, class_qualified_name, chunk_id) ==
    create_relationship(es, class_qualified_name, chunk_id, "DEFINED_IN", EmptyDict)

create_function_call_relationship(es, caller_qualified_name, callee_qualified_name) ==
    create_relationship(es, caller_qualified_name, callee_qualified_name, "CALLS", EmptyDict)

create_class_inheritance_relationship(es, child_qualified_name, parent_qualified_name) ==
    create_relationship(es, child_qualified_name, parent_qualified_name, "INHERITS_FROM", EmptyDict)

create_class_method_relationship(es, class_qualified_name, method_qualified_name) ==
    create_relationship(es, class_qualified_name, method_qualified_name, "HAS_METHOD", EmptyDict)

\* get_database_stats: node counts by type and edge counts by relationship type
\* (a type that does not occur has no entry; it is counted here as 0).
get_database_stats(ns, es) ==
    [nodes |-> [t \in NodeTypes |-> Cardinality({id \in DOMAIN ns : ns[id].type = t})],
     relationships |->
        [t \in RelTypes |-> Cardinality({i \in DOMAIN es : es[i].relationship_type = t})]]

(***************************************************************************)
(* The graph indexing pass: HybridSearch._create_graph_data.               *)
(*                                                                         *)
(* A chunk's content is a sequence of lines and a line a sequence of       *)
(* lexemes (identifiers, keywords, punctuation); the whitespace the        *)
(* regular expressions skip with \s* and \s+ is what separates lexemes.    *)
(***************************************************************************)
Punctuation == {"(", ")", ":", "{", "}", "=>", "=", ","}

\* [a-zA-Z_][a-zA-Z0-9_]* : keywords are identifiers to the regular expressions.
IsIdentifier(w) == w \notin Punctuation

\* \w+
IsWord(w) == w \notin Punctuation

Lexeme(line, i) == IF i \in DOMAIN line THEN line[i] ELSE ""

AccessModifiers == {"public", "private", "protected"}

\* The java prefix (?:public|private|protected)?\s*(?:static)?\s* over the first k lexemes.
JavaPrefix(line, k) ==
    \/ k = 0
    \/ k = 1 /\ Lexeme(line, 1) \in AccessModifiers \cup {"static"}
    \/ k = 2 /\ Lexeme(line, 1) \in AccessModifiers /\ Lexeme(line, 2) = "static"

\* The names the function patterns of a language capture on one line, one per
\* matching pattern, in pattern order.
FunctionMatches(line, language) ==
    LET one(cond, name) == IF cond THEN <<name>> ELSE <<>>
        fn(kw) == Lexeme(line, 1) = kw /\ line # <<>> /\ IsIdentifier(Lexeme(line, 2))
                    /\ Lexeme(line, 2) # "" /\ Lexeme(line, 3) = "("
        script ==
            one(fn("function"), Lexeme(line, 2))
            \o one(Len(line) >= 4 /\ IsIdentifier(line[1]) /\ line[2] = ":"
                     /\ line[3] = "function" /\ line[4] = "(", Lexeme(line, 1))
            \o one(Len(line) >= 2 /\ IsIdentifier(line[1]) /\ line[2] = "=>", Lexeme(line, 1))
    IN  CASE language = "python" ->
                one(fn("def"), Lexeme(line, 2))
                \o one(Len(line) >= 4 /\ line[1] = "async" /\ line[2] = "def"
                         /\ IsIdentifier(line[3]) /\ line[4] = "(", Lexeme(line, 3))
          [] language \in {"javascript", "typescript"} -> script
          [] language = "java" ->
                IF \E k \in 0..2 : /\ Len(line) >= k + 3
                                   /\ JavaPrefix(line, k)
                                   /\ IsWord(line[k + 1])
                                   /\ IsIdentifier(line[k + 2])
                                   /\ line[k + 3] = "("
                THEN LET k == CHOOSE k \in 0..2 : /\ Len(line) >= k + 3
                                                  /\ JavaPrefix(line, k)
                                                  /\ IsWord(line[k + 1])
                                                  /\ IsIdentifier(line[k + 2])
                                                  /\ line[k + 3] = "("
                     IN  <<line[k + 2]>>
                ELSE <<>>
          [] language = "cpp" ->
                one(Len(line) >= 3 /\ IsWord(line[1]) /\ IsIdentifier(line[2])
                      /\ line[3] = "(", Lexeme(line, 2))
          [] language = "go" -> one(fn("func"), Lexeme(line, 2))
          [] OTHER -> <<>>

\* The names the class patterns of a language capture on one line.
ClassMatches(line, language) ==
    LET one(cond, name) == IF cond THEN <<name>> ELSE <<>>
        cls(at, closers) == /\ Len(line) >= at + 2
                            /\ line[at] = "class"
                            /\ IsIdentifier(line[at + 1])
                            /\ line[at + 2] \in closers
    IN  CASE language = "python" -> one(cls(1, {":", "("}), Lexeme(line, 2))
          [] language \in {"javascript", "typescript"} ->
                one(cls(1, {"{", "("}), Lexeme(line, 2))
          [] language = "java" ->
                IF cls(1, {"{", "("}) THEN <<line[2]>>
                ELSE one(Lexeme(line, 1) \in AccessModifiers /\ cls(2, {"{", "("}),
                         Lexeme(line, 3))
          [] language = "cpp" -> one(cls(1, {"{", ":"}), Lexeme(line, 2))
          [] language = "go" ->
                one(Len(line) >= 4 /\ line[1] = "type" /\ IsIdentifier(line[2])
                      /\ line[3] = "struct" /\ line[4] = "{", Lexeme(line, 2))
          [] OTHER -> <<>>

RECURSIVE MatchesFrom(_, _, _, _)
\* The {name, line_offset} entries of lines i.. of the content, in line order;
\* kind is "function" or "class".
MatchesFrom(content, language, kind, i) ==
    IF i > Len(content) THEN <<>>
    ELSE LET names == IF kind = "function" THEN FunctionMatches(content[i], language)
                      ELSE ClassMatches(content[i], language)
         IN  [j \in 1..Len(names) |-> [name |-> names[j], line_offset |-> i - 1]]
             \o MatchesFrom(content, language, kind, i + 1)

_extract_functions(content, language) == MatchesFrom(content, language, "function", 1)

_extract_classes(content, language) == MatchesFrom(content, language, "class", 1)

\* Path(file_path).suffix.lower() of the file paths of the model.
PathSuffix(file_path) ==
    CASE file_path \in {"a.py", "pkg/a.py"} -> ".py"
      [] file_path = "pkg/b.ts" -> ".ts"
      [] file_path = "Foo.java" -> ".java"
      [] file_path = "notes.md" -> ".md"
      [] OTHER -> ""

_determine_file_type(file_path) ==
    LET suffix == PathSuffix(file_path)
    IN  CASE suffix \in {".py", ".js", ".ts", ".jsx", ".tsx", ".java", ".cpp", ".c", ".h",
                         ".go", ".rs", ".rb", ".php", ".swift", ".kt", ".scala", ".dart"}
                -> "source"
          [] suffix \in {".md", ".txt", ".rst"} -> "documentation"
          [] suffix \in {".json", ".yaml", ".yml", ".xml"} -> "config"
          [] suffix \in {".html", ".css", ".scss", ".sass"} -> "web"
          [] suffix = ".sql" -> "database"
          [] suffix \in {".sh", ".bat", ".ps1"} -> "script"
          [] OTHER -> "other"

\* f"{chunk.file_path}::{name}"
QualifiedName(file_path, name) == file_path \o "::" \o name

RECURSIVE CreateEntities(_, _, _, _, _)
\* The loops of _extract_and_create_code_entities over the extracted functions
\* (kind "function") or classes (kind "class") from entry i on: the node, then
\* its DEFINED_IN edge to the chunk. S is the store, [nodes, edges].
CreateEntities(S, chunk, infos, kind, i) ==
    IF i > Len(infos) THEN S
    ELSE LET info == infos[i]
             qn == QualifiedName(chunk.file_path, info.name)
             line == chunk.start_line + info.line_offset
             ns == IF kind = "function"
                   THEN create_function_node(S.nodes, info.name, qn, chunk.file_path,
                                             line, EmptyDict)
                   ELSE create_class_node(S.nodes, info.name, qn, chunk.file_path,
                                          line, EmptyDict)
             es == IF kind = "function"
                   THEN create_function_chunk_relationship(S.edges, qn, chunk.id)
                   ELSE create_class_chunk_relationship(S.edges, qn, chunk.id)
         IN  CreateEntities([nodes |-> ns, edges |-> es], chunk, infos, kind, i + 1)

_extract_and_create_code_entities(S, chunk) ==
    LET functions == _extract_functions(chunk.content, chunk.language)
        classes == _extract_classes(chunk.content, chunk.language)
        afterFunctions == CreateEntities(S, chunk, functions, "function", 1)
    IN  CreateEntities(afterFunctions, chunk, classes, "class", 1)

RECURSIVE FilesInOrder(_, _)
\* The keys of files_dict in insertion order: the file paths of the chunks in
\* order of first occurrence.
FilesInOrder(cs, i) ==
    IF i > Len(cs) THEN <<>>
    ELSE IF \E j \in 1..(i - 1) : cs[j].file_path = cs[i].file_path
         THEN FilesInOrder(cs, i + 1)
         ELSE <<cs[i].file_path>> \o FilesInOrder(cs, i + 1)

\* files_dict[file_path]: the chunks of the file in list order, with the language
\* and metadata of its first chunk.
FileData(cs, file_path) ==
    LET mine == SelectSeq(cs, LAMBDA c : c.file_path = file_path)
    IN  [chunks |-> mine, language |-> mine[1].language, metadata |-> mine[1].metadata]

RECURSIVE CreateChunks(_, _, _, _)
\* The inner loop of _create_graph_data over the chunks of one file.
CreateChunks(S, file_path, cs, i) ==
    IF i > Len(cs) THEN S
    ELSE LET ns == create_chunk_node(S.nodes, cs[i])
             es == create_file_chunk_relationship(S.edges, file_path, cs[i].id)
         IN  CreateChunks(_extract_and_create_code_entities(
                              [nodes |-> ns, edges |-> es], cs[i]),
                          file_path, cs, i + 1)

RECURSIVE CreateFiles(_, _, _, _)
\* The outer loop of _create_graph_data over the files.
CreateFiles(S, cs, files, i) ==
    IF i > Len(files) THEN S
    ELSE LET file_data == FileData(cs, files[i])
             file_size == DictGet(file_data.metadata, "file_size", 0)
             language == IF file_data.language = "" THEN "unknown" ELSE file_data.language
             ns == create_file_node(S.nodes, files[i], language,
                                    _determine_file_type(files[i]),
                                    [file_size |-> file_size])
         IN  CreateFiles(CreateChunks([nodes |-> ns, edges |-> S.edges], files[i],
                                      file_data.chunks, 1),
                         cs, files, i + 1)

_create_graph_data(S, cs) == CreateFiles(S, cs, FilesInOrder(cs, 1), 1)

(***************************************************************************)
(* Inputs of the graph store and of the indexing pass.                     *)
(***************************************************************************)
Files == {"a.py", "Foo.java", "notes.md"}

Names == {"Foo", "bar"}

LineDefBar == <<"def", "bar", "(", ")", ":">>

LineDefFoo == <<"def", "Foo", "(", ")", ":">>

LineClassFoo == <<"class", "Foo", ":">>

LineAssign == <<"x", "=", "bar", "(", ")">>

LineJavaClass == <<"public", "class", "Foo", "{">>

LineJavaConstructor == <<"public", "Foo", "(", ")", "{">>

Contents == {<<LineDefBar>>, <<LineClassFoo, LineDefFoo>>, <<LineAssign, LineDefBar>>}

\* The chunks a chunk list is made of: ids are unique within a list.
ChunkPool ==
    {[id |-> "c1", file_path |-> "a.py", content |-> c, start_line |-> l,
      end_line |-> l + Len(c) - 1, language |-> "python", chunk_type |-> "function",
      metadata |-> EmptyDict] : c \in Contents, l \in 1..MaxLine}
    \cup
    {[id |-> "c2", file_path |-> "Foo.java", content |-> <<LineJavaClass, LineJavaConstructor>>,
      start_line |-> l, end_line |-> l + 1, language |-> "java",
      chunk_type |-> "class", metadata |-> [file_size |-> 10]] : l \in 1..MaxLine}
    \cup
    {[id |-> "c3", file_path |-> "notes.md", content |-> <<LineDefBar>>, start_line |-> 1,
      end_line |-> 1, language |-> lang, chunk_type |-> "text",
      metadata |-> EmptyDict] : lang \in {"", "markdown"}}

MaxChunks == 2

ChunkLists ==
    {cs \in UNION {[1..n -> ChunkPool] : n \in 1..MaxChunks} :
        \A i, j \in DOMAIN cs : i # j => cs[i].id # cs[j].id}

\* Endpoints and properties handed to create_relationship.
EdgeSources == {"a.py::Foo"}

EdgeTargets == {"c1", "a.py::bar"}

PropertyChoices == {EmptyDict, [weight |-> 1], [weight |-> 2, note |-> 1]}

\* The relationship types handed to create_relationship directly; the typed
\* wrappers supply the others.
DirectTypes == {"CALLS", "CONTAINS"}

NoCall == [op |-> "none"]

\* What a node-creating call found: the type stored under the id before it.
NodeCall(ns, id, type) ==
    [op |-> "create_node", id |-> id, type |-> type,
     before |-> IF id \in DOMAIN ns THEN ns[id].type ELSE "none",
     before_data |-> IF id \in DOMAIN ns THEN <<ns[id]>> ELSE <<>>,
     count |-> Cardinality(DOMAIN ns)]

\* What a create_relationship call found: the properties of the edge with the
\* triple before it, if there was one.
EdgeCall(es, source_id, target_id, relationship_type, properties) ==
    LET found == EdgeIndexes(es, source_id, target_id, relationship_type)
    IN  [op |-> "create_relationship",
         triple |-> <<source_id, target_id, relationship_type>>,
         properties |-> properties,
         existed |-> found # {},
         before |-> IF found # {} THEN es[FirstIndex(found)].properties ELSE EmptyDict,
         count |-> Len(es)]

(***************************************************************************)
(* Actions on the graph store.                                             *)
(***************************************************************************)
InitGraph ==
    /\ nodes = InitialNodes
    /\ edges = InitialEdges
    /\ last = NoCall
    /\ chunks = <<>>
    /\ passes = 0
    /\ statsFirst = get_database_stats(InitialNodes, InitialEdges)

CreateFileNode ==
    \E file_path \in {"a.py"}, language \in {"python", "unknown"} :
        /\ nodes' = create_file_node(nodes, file_path, language,
                                     _determine_file_type(file_path), EmptyDict)
        /\ last' = NodeCall(nodes, file_path, "File")
        /\ passes' = 0
        /\ UNCHANGED <<edges, chunks, statsFirst>>
        /\ UNCHANGED nonGraphVars

CreateChunkNode ==
    \E chunk \in {c \in ChunkPool : c.id = "c1" /\ Len(c.content) = 1} :
        /\ nodes' = create_chunk_node(nodes, chunk)
        /\ last' = NodeCall(nodes, chunk.id, "Chunk")
        /\ passes' = 0
        /\ UNCHANGED <<edges, chunks, statsFirst>>
        /\ UNCHANGED nonGraphVars

CreateFunctionNode ==
    \E name \in Names, line_number \in 1..MaxLine :
        LET qn == QualifiedName("a.py", name)
        IN  /\ nodes' = create_function_node(nodes, name, qn, "a.py", line_number, EmptyDict)
            /\ last' = NodeCall(nodes, qn, "Function")
            /\ passes' = 0
            /\ UNCHANGED <<edges, chunks, statsFirst>>
            /\ UNCHANGED nonGraphVars

CreateClassNode ==
    \E name \in Names, line_number \in 1..MaxLine :
        LET qn == QualifiedName("a.py", name)
        IN  /\ nodes' = create_class_node(nodes, name, qn, "a.py", line_number, EmptyDict)
            /\ last' = NodeCall(nodes, qn, "Class")
            /\ passes' = 0
            /\ UNCHANGED <<edges, chunks, statsFirst>>
            /\ UNCHANGED nonGraphVars

\* The edge list may grow to MaxEdges; merging into a stored edge is always possible.
EdgeRoom(source_id, target_id, relationship_type) ==
    \/ Len(edges) < MaxEdges
    \/ EdgeIndexes(edges, source_id, target_id, relationship_type) # {}

RelationshipCall(source_id, target_id, relationship_type, properties, es) ==
    /\ EdgeRoom(source_id, target_id, relationship_type)
    /\ edges' = es
    /\ last' = EdgeCall(edges, source_id, target_id, relationship_type, properties)
    /\ passes' = 0
    /\ UNCHANGED <<nodes, chunks, statsFirst>>
    /\ UNCHANGED nonGraphVars

CreateRelationship ==
    \E s \in EdgeSources, t \in EdgeTargets, ty \in DirectTypes, pr \in PropertyChoices :
        RelationshipCall(s, t, ty, pr, create_relationship(edges, s, t, ty, pr))

CreateFileChunkRelationship ==
    \E s \in EdgeSources, t \in EdgeTargets :
        RelationshipCall(s, t, "CONTAINS", EmptyDict,
                         create_file_chunk_relationship(edges, s, t))

CreateFunctionChunkRelationship ==
    \E s \in EdgeSources, t \in EdgeTargets :
        RelationshipCall(s, t, "DEFINED_IN", EmptyDict,
                         create_function_chunk_relationship(edges, s, t))

CreateClassChunkRelationship ==
    \E s \in EdgeSources, t \in EdgeTargets :
        RelationshipCall(s, t, "DEFINED_IN", EmptyDict,
                         create_class_chunk_relationship(edges, s, t))

CreateFunctionCallRelationship ==
    \E s \in EdgeSources, t \in EdgeTargets :
        RelationshipCall(s, t, "CALLS", EmptyDict,
                         create_function_call_relationship(edges, s, t))

CreateClassInheritanceRelationship ==
    \E s \in EdgeSources, t \in EdgeTargets :
        RelationshipCall(s, t, "INHERITS_FROM", EmptyDict,
                         create_class_inheritance_relationship(edges, s, t))

CreateClassMethodRelationship ==
    \E s \in EdgeSources, t \in EdgeTargets :
        RelationshipCall(s, t, "HAS_METHOD", EmptyDict,
                         create_class_method_relationship(edges, s, t))

\* clear_database
ClearDatabase ==
    /\ nodes # InitialNodes \/ edges # InitialEdges
    /\ nodes' = InitialNodes
    /\ edges' = InitialEdges
    /\ last' = [op |-> "clear_database"]
    /\ passes' = 0
    /\ UNCHANGED <<chunks, statsFirst>>
    /\ UNCHANGED nonGraphVars

\* HybridSearch._create_graph_data over the chunk list: one indexing pass.
CreateGraphData ==
    /\ passes < MaxPasses
    /\ LET S == _create_graph_data([nodes |-> nodes, edges |-> edges], chunks)
       IN  /\ nodes' = S.nodes
           /\ edges' = S.edges
           /\ statsFirst' = IF passes = 0 THEN get_database_stats(S.nodes, S.edges)
                            ELSE statsFirst
    /\ passes' = passes + 1
    /\ last' = [op |-> "_create_graph_data"]
    /\ UNCHANGED chunks
    /\ UNCHANGED nonGraphVars

(***************************************************************************)
(* Score fusion: HybridSearch._combine_results.                            *)
(*                                                                         *)
(* Scores are exact rationals [n, d] in lowest terms with d > 0, so that   *)
(* equal scores are equal values.                                          *)
(***************************************************************************)
Abs(x) == IF x < 0 THEN -x ELSE x

RECURSIVE GCD(_, _)
GCD(a, b) == IF b = 0 THEN a ELSE GCD(b, a % b)

\* n / d in lowest terms (d # 0).
Rat(n, d) ==
    LET g == GCD(Abs(n), Abs(d))
        sign == IF d < 0 THEN -1 ELSE 1
    IN  [n |-> sign * (n \div g), d |-> sign * (d \div g)]

RatZero == Rat(0, 1)

RatHalf == Rat(1, 2)

RatOne == Rat(1, 1)

RatAdd(a, b) == Rat(a.n * b.d + b.n * a.d, a.d * b.d)

RatMul(a, b) == Rat(a.n * b.n, a.d * b.d)

RatLess(a, b) == a.n * b.d < b.n * a.d

RatLeq(a, b) == a.n * b.d <= b.n * a.d

\* min(scores), max(scores) of a non-empty list of integers.
MinOf(scores) == CHOOSE m \in Range(scores) : \A x \in Range(scores) : m <= x

MaxOf(scores) == CHOOSE m \in Range(scores) : \A x \in Range(scores) : x <= m

\* Mutant of normalize_scores: the max == min guard returns 0 for every element.
NormalizeUniformToZero(scores) ==
    IF scores = <<>> THEN <<>>
    ELSE IF MaxOf(scores) = MinOf(scores)
         THEN [i \in DOMAIN scores |-> RatZero]
         ELSE [i \in DOMAIN scores |->
                  Rat(scores[i] - MinOf(scores), MaxOf(scores) - MinOf(scores))]

\* normalize_scores: min-max normalization, 0.5 everywhere when max == min.
normalize_scores(scores) ==
    IF scores = <<>> THEN <<>>
    ELSE LET min_score == MinOf(scores)
             max_score == MaxOf(scores)
         IN  IF max_score = min_score
             THEN [i \in DOMAIN scores |-> RatHalf]
             ELSE [i \in DOMAIN scores |->
                      Rat(scores[i] - min_score, max_score - min_score)]

\* combined_dict is an insertion-ordered dictionary: a sequence of entries with
\* distinct chunk ids.
DictIds(d) == {d[i].chunk_id : i \in DOMAIN d}

DictIndex(d, chunk_id) == CHOOSE i \in DOMAIN d : d[i].chunk_id = chunk_id

RECURSIVE AddVectorResults(_, _, _, _)
\* The loop over vector_results from position i on.
AddVectorResults(d, vector_results, vector_norm, i) ==
    IF i > Len(vector_results) THEN d
    ELSE LET chunk_id == vector_results[i].chunk_id
             entry == [chunk_id |-> chunk_id,
                       vector_score |-> IF i <= Len(vector_norm) THEN vector_norm[i]
                                        ELSE RatZero,
                       bm25_score |-> RatZero,
                       search_types |-> <<"vector">>]
         IN  AddVectorResults(IF chunk_id \notin DictIds(d) THEN Append(d, entry) ELSE d,
                              vector_results, vector_norm, i + 1)

\* Mutant of AddBm25Result: a chunk already in the dictionary keeps bm25_score 0.
AddBm25ResultNoUpdate(d, chunk_id, score) ==
    IF chunk_id \notin DictIds(d)
    THEN Append(d, [chunk_id |-> chunk_id, vector_score |-> RatZero,
                    bm25_score |-> score, search_types |-> <<"bm25">>])
    ELSE [d EXCEPT ![DictIndex(d, chunk_id)].search_types = Append(@, "bm25")]

\* One iteration of the loop over bm25_results.
AddBm25Result(d, chunk_id, score) ==
    IF chunk_id \notin DictIds(d)
    THEN Append(d, [chunk_id |-> chunk_id, vector_score |-> RatZero,
                    bm25_score |-> score, search_types |-> <<"bm25">>])
    ELSE [d EXCEPT ![DictIndex(d, chunk_id)].bm25_score = score,
                   ![DictIndex(d, chunk_id)].search_types = Append(@, "bm25")]

RECURSIVE AddBm25Results(_, _, _, _)
\* The loop over bm25_results from position i on.
AddBm25Results(d, bm25_results, bm25_norm, i) ==
    IF i > Len(bm25_results) THEN d
    ELSE AddBm25Results(
             AddBm25Result(d, bm25_results[i].chunk_id,
                           IF i <= Len(bm25_norm) THEN bm25_norm[i] ELSE RatZero),
             bm25_results, bm25_norm, i + 1)

\* Mutant of CombinedScore: both terms are weighted by vector_weight.
CombinedScoreOneWeight(vector_score, bm25_score, vector_weight, bm25_weight) ==
    RatAdd(RatMul(vector_score, vector_weight), RatMul(bm25_score, vector_weight))

\* data["vector_score"] * vector_weight + data["bm25_score"] * bm25_weight
CombinedScore(vector_score, bm25_score, vector_weight, bm25_weight) ==
    RatAdd(RatMul(vector_score, vector_weight), RatMul(bm25_score, bm25_weight))

RECURSIVE SetCombinedScores(_, _, _, _)
\* The loop that stores combined_score in every entry, from position i on.
SetCombinedScores(d, vector_weight, bm25_weight, i) ==
    IF i > Len(d) THEN <<>>
    ELSE <<[chunk_id |-> d[i].chunk_id,
            vector_score |-> d[i].vector_score,
            bm25_score |-> d[i].bm25_score,
            search_types |-> d[i].search_types,
            combined_score |-> CombinedScore(d[i].vector_score, d[i].bm25_score,
                                             vector_weight, bm25_weight)]>>
         \o SetCombinedScores(d, vector_weight, bm25_weight, i + 1)

\* combined_dict after the three loops: every entry with its combined_score.
CombinedDict(vector_results, bm25_results, vector_weight, bm25_weight) ==
    LET vector_norm == normalize_scores([i \in DOMAIN vector_results |->
                                            vector_results[i].score])
        bm25_norm == normalize_scores([i \in DOMAIN bm25_results |->
                                          bm25_results[i].score])
        d1 == AddVectorResults(<<>>, vector_results, vector_norm, 1)
        d2 == AddBm25Results(d1, bm25_results, bm25_norm, 1)
    IN  SetCombinedScores(d2, vector_weight, bm25_weight, 1)

\* Mutant of SortedPosition: ascending order of combined_score.
SortedPositionAscending(d, i) ==
    1 + Cardinality({j \in DOMAIN d : RatLess(d[j].combined_score, d[i].combined_score)})
      + Cardinality({j \in DOMAIN d : j < i /\ d[j].combined_score = d[i].combined_score})

\* Mutant of SortedPosition: among entries with equal scores the later one
\* comes first.
SortedPositionTiesReversed(d, i) ==
    1 + Cardinality({j \in DOMAIN d : RatLess(d[i].combined_score, d[j].combined_score)})
      + Cardinality({j \in DOMAIN d : j > i /\ d[j].combined_score = d[i].combined_score})

\* sorted(..., key=combined_score, reverse=True) is stable: entry i comes after
\* every entry with a greater score and after the earlier entries with an equal one.
SortedPosition(d, i) ==
    1 + Cardinality({j \in DOMAIN d : RatLess(d[i].combined_score, d[j].combined_score)})
      + Cardinality({j \in DOMAIN d : j < i /\ d[j].combined_score = d[i].combined_score})

SortedResults(d) ==
    [p \in DOMAIN d |-> d[CHOOSE i \in DOMAIN d : SortedPosition(d, i) = p]]

\* _combine_results: the first top_k sorted entries as SearchResults, ranked from 1.
_combine_results(vector_results, bm25_results, vector_weight, bm25_weight, top_k) ==
    LET combined == CombinedDict(vector_results, bm25_results, vector_weight, bm25_weight)
        sorted_results == SortedResults(combined)
    IN  [rank \in 1..Min2(top_k, Len(combined)) |->
            LET data == sorted_results[rank]
            IN  [chunk_id |-> data.chunk_id,
                 score |-> data.combined_score,
                 rank |-> rank,
                 search_type |-> "hybrid",
                 metadata |-> [vector_score |-> data.vector_score,
                               bm25_score |-> data.bm25_score,
                               search_types |-> data.search_types]]]


(***************************************************************************)
(* Inputs and actions of score fusion.                                     *)
(***************************************************************************)
MaxScore == 2

MaxTopK == 3

VectorIds == {"A", "B", "C"}

Bm25Ids == {"B", "D"}

\* All result lists over the ids: every id at most once, any order, any scores.
ResultLists(ids, scores) ==
    {r \in UNION {[1..n -> [chunk_id : ids, score : scores]] : n \in 0..Cardinality(ids)} :
        \A i, j \in DOMAIN r : i # j => r[i].chunk_id # r[j].chunk_id}

\* Vector scores are similarities or distances; BM25Search.search returns only
\* documents whose score is positive.
VectorLists == ResultLists(VectorIds, 0..MaxScore)

Bm25Lists == ResultLists(Bm25Ids, 1..MaxScore)

\* (vector_weight, bm25_weight): the defaults 0.6 / 0.4 and a pair that does not sum to 1.
WeightPairs == {<<Rat(6, 10), Rat(4, 10)>>, <<Rat(1, 1), Rat(1, 2)>>}

\* The lists and weights of a query; top_k is chosen when the call is made.
FusionInputs ==
    {[vector_results |-> v, bm25_results |-> b, vector_weight |-> w[1],
      bm25_weight |-> w[2], top_k |-> 1] :
        v \in VectorLists, b \in Bm25Lists, w \in WeightPairs}

NoFusionArgs ==
    [vector_results |-> <<>>, bm25_results |-> <<>>, vector_weight |-> Rat(6, 10),
     bm25_weight |-> Rat(4, 10), top_k |-> 1]

FusionIdle ==
    /\ fusion_args = NoFusionArgs
    /\ combined_dict = <<>>
    /\ final_results = <<>>
    /\ mirror_dict = <<>>
    /\ fusion_calls = {}

InitFusion ==
    /\ fusion_args \in FusionInputs
    /\ combined_dict = <<>>
    /\ final_results = <<>>
    /\ mirror_dict = <<>>
    /\ fusion_calls = {}

\* _combine_results(vector_results, bm25_results, vector_weight, bm25_weight, top_k)
CombineResults ==
    /\ "direct" \notin fusion_calls
    /\ \E k \in 1..MaxTopK :
          /\ fusion_args' = [fusion_args EXCEPT !.top_k = k]
          /\ final_results' = _combine_results(fusion_args.vector_results,
                                               fusion_args.bm25_results,
                                               fusion_args.vector_weight,
                                               fusion_args.bm25_weight, k)
    /\ combined_dict' = CombinedDict(fusion_args.vector_results, fusion_args.bm25_results,
                                     fusion_args.vector_weight, fusion_args.bm25_weight)
    /\ fusion_calls' = fusion_calls \cup {"direct"}
    /\ UNCHANGED mirror_dict
    /\ UNCHANGED nonFusionVars

\* The same call, made next, with the two lists swapped and the two weights swapped.
CombineResultsMirrored ==
    /\ "direct" \in fusion_calls
    /\ "mirrored" \notin fusion_calls
    /\ mirror_dict' = CombinedDict(fusion_args.bm25_results, fusion_args.vector_results,
                                   fusion_args.bm25_weight, fusion_args.vector_weight)
    /\ fusion_calls' = fusion_calls \cup {"mirrored"}
    /\ UNCHANGED <<fusion_args, combined_dict, final_results>>
    /\ UNCHANGED nonFusionVars


(***************************************************************************)
(* The keyword ranker: BM25Search over rank_bm25.BM25Okapi.                *)
(*                                                                         *)
(* A text is a sequence of lines of lexemes, as in the indexing pass. An   *)
(* idf or a score is kept exactly, as the value  times * ln(log.n / log.d) *)
(* with a rational coefficient: its sign and the order of the scores of    *)
(* one query term are then computed without rounding.                      *)
(***************************************************************************)
\* str.lower() on the lexemes of the model.
Lower(w) ==
    CASE w = "Hello" -> "hello"
      [] w = "Foo" -> "foo"
      [] OTHER -> w

RECURSIVE Flatten(_)
Flatten(lines) == IF lines = <<>> THEN <<>> ELSE Head(lines) \o Flatten(Tail(lines))

\* _preprocess_text: lowercase, every character outside [\w\s.] becomes a space,
\* split on whitespace, drop the tokens of length <= 1.
_preprocess_text(text) ==
    LET lexemes == Flatten(text)
        lowered == [i \in DOMAIN lexemes |-> Lower(lexemes[i])]
        tokens == SelectSeq(lowered, LAMBDA w : w \notin Punctuation)
    IN  SelectSeq(tokens, LAMBDA token : Len(token) > 1)

\* The value times * ln(n / d).
LogValue(n, d, times) == [log |-> [n |-> n, d |-> d], times |-> times]

ZeroValue == LogValue(1, 1, RatZero)

\* The sign of ln(n / d).
LogSign(log) == IF log.n > log.d THEN 1 ELSE IF log.n = log.d THEN 0 ELSE -1

\* The value divided by |ln(n / d)|: the sign of the value, and the order of two
\* values over the same logarithm.
SignedTimes(v) == RatMul(v.times, Rat(LogSign(v.log), 1))

ValueSign(v) ==
    IF SignedTimes(v).n > 0 THEN 1 ELSE IF SignedTimes(v).n = 0 THEN 0 ELSE -1

\* a + b, for values over the same logarithm or with one of them zero.
ValueAdd(a, b) ==
    IF ValueSign(a) = 0 THEN b
    ELSE IF ValueSign(b) = 0 THEN a
    ELSE [log |-> a.log, times |-> RatAdd(a.times, b.times)]

ValueLeq(a, b) == RatLeq(SignedTimes(a), SignedTimes(b))

\* BM25._initialize: frequencies of one document.
Frequencies(document) ==
    [word \in Range(document) |->
        Cardinality({i \in DOMAIN document : document[i] = word})]

RECURSIVE NumDoc(_)
\* BM25._initialize: num_doc, the total number of tokens.
NumDoc(corpus) ==
    IF corpus = <<>> THEN 0 ELSE Len(Head(corpus)) + NumDoc(Tail(corpus))

\* BM25._initialize: nd, word -> number of documents with the word.
DocumentCounts(corpus) ==
    [word \in UNION {Range(corpus[d]) : d \in DOMAIN corpus} |->
        Cardinality({d \in DOMAIN corpus : word \in Range(corpus[d])})]

\* math.log(corpus_size - freq + 0.5) - math.log(freq + 0.5)
RawIdf(corpus_size, freq) ==
    LogValue(2 * (corpus_size - freq) + 1, 2 * freq + 1, RatOne)

RECURSIVE IdfProduct(_, _, _)
\* idf_sum = ln(n / d) with n and d the products over the words.
IdfProduct(nd, corpus_size, words) ==
    IF words = {} THEN [n |-> 1, d |-> 1]
    ELSE LET word == CHOOSE w \in words : TRUE
             rest == IdfProduct(nd, corpus_size, words \ {word})
             idf == RawIdf(corpus_size, nd[word])
         IN  [n |-> rest.n * idf.log.n, d |-> rest.d * idf.log.d]

\* average_idf = idf_sum / len(self.idf), for a non-empty vocabulary.
AverageIdf(nd, corpus_size) ==
    LET idf_sum == IdfProduct(nd, corpus_size, DOMAIN nd)
    IN  LogValue(idf_sum.n, idf_sum.d, Rat(1, Cardinality(DOMAIN nd)))

\* BM25Okapi._calc_idf: a negative idf is replaced by eps = epsilon * average_idf,
\* epsilon = 0.25.
CalcIdf(nd, corpus_size) ==
    LET average_idf == AverageIdf(nd, corpus_size)
        eps == [average_idf EXCEPT !.times = RatMul(Rat(1, 4), @)]
    IN  [word \in DOMAIN nd |->
            IF ValueSign(RawIdf(corpus_size, nd[word])) < 0 THEN eps
            ELSE RawIdf(corpus_size, nd[word])]

NoIndex == [built |-> FALSE]

\* BM25Okapi(corpus, k1, b) for a corpus with a non-empty vocabulary.
BM25Okapi(corpus) ==
    [built |-> TRUE,
     corpus_size |-> Len(corpus),
     num_doc |-> NumDoc(corpus),
     doc_len |-> [d \in DOMAIN corpus |-> Len(corpus[d])],
     doc_freqs |-> [d \in DOMAIN corpus |-> Frequencies(corpus[d])],
     idf |-> CalcIdf(DocumentCounts(corpus), Len(corpus))]

\* average_idf = idf_sum / len(self.idf) divides by zero when no document has a token.
RaisesZeroDivision(corpus) == \A d \in DOMAIN corpus : corpus[d] = <<>>

\* q_freq * (k1 + 1) / (q_freq + k1 * (1 - b + b * doc_len / avgdl)) with
\* k1 = 1.2, b = 0.75 and avgdl = num_doc / corpus_size.
TermFactor(q_freq, doc_len, num_doc, corpus_size) ==
    Rat(22 * q_freq * num_doc,
        10 * q_freq * num_doc + 3 * num_doc + 9 * doc_len * corpus_size)

\* (doc.get(q) or 0)
QFreq(frequencies, q) == IF q \in DOMAIN frequencies THEN frequencies[q] ELSE 0

\* The term one query token adds to the score of document d.
ScoreTerm(index, q, d) ==
    IF q \notin DOMAIN index.idf THEN ZeroValue
    ELSE [index.idf[q] EXCEPT
             !.times = RatMul(@, TermFactor(QFreq(index.doc_freqs[d], q),
                                            index.doc_len[d], index.num_doc,
                                            index.corpus_size))]

RECURSIVE DocScore(_, _, _, _)
\* The loop of get_scores over the query tokens from position i on, for document d.
DocScore(index, query_tokens, d, i) ==
    IF i > Len(query_tokens) THEN ZeroValue
    ELSE ValueAdd(ScoreTerm(index, query_tokens[i], d),
                  DocScore(index, query_tokens, d, i + 1))

\* BM25Okapi.get_scores(query)
get_scores(index, query_tokens) ==
    [d \in 1..index.corpus_size |-> DocScore(index, query_tokens, d, 1)]

\* np.argsort(bm25_scores)[::-1][:top_k]: the top_k documents by descending
\* score; the order of documents with equal scores is not specified.
TopIndices(bm25_scores, top_k) ==
    {p \in [1..Min2(top_k, Len(bm25_scores)) -> DOMAIN bm25_scores] :
        /\ \A i, j \in DOMAIN p : i # j => p[i] # p[j]
        /\ \A i, j \in DOMAIN p : i < j => ValueLeq(bm25_scores[p[j]], bm25_scores[p[i]])
        /\ \A d \in DOMAIN bm25_scores \ Range(p) :
              \A i \in DOMAIN p : ValueLeq(bm25_scores[d], bm25_scores[p[i]])}

\* The result built for the document at position rank of top_indices.
Bm25Result(metadata, bm25_scores, idx, rank) ==
    [chunk |-> [id |-> metadata[idx].chunk_id,
                file_path |-> metadata[idx].file_path,
                content |-> "",
                start_line |-> metadata[idx].start_line,
                end_line |-> metadata[idx].end_line,
                language |-> metadata[idx].language,
                chunk_type |-> metadata[idx].chunk_type,
                metadata |-> EmptyDict],
     score |-> bm25_scores[idx],
     rank |-> rank,
     search_type |-> "bm25",
     metadata |-> [bm25_score |-> bm25_scores[idx]]]

\* The positions of top_indices whose score is positive.
PositiveRanks(bm25_scores, top_indices) ==
    SelectSeq([rank \in DOMAIN top_indices |-> rank],
              LAMBDA rank : ValueSign(bm25_scores[top_indices[rank]]) > 0)

NoSearch ==
    [made |-> FALSE, query |-> <<>>, top_k |-> 1, query_tokens |-> <<>>,
     bm25_scores |-> <<>>, top_indices |-> <<>>, results |-> <<>>, raised |-> ""]

\* BM25Search.search(query, top_k) with the top_indices argsort gave: the
\* record of the call, with the list returned or the exception raised.
SearchCall(index, metadata, query, top_k, bm25_scores, top_indices) ==
    LET ranks == PositiveRanks(bm25_scores, top_indices)
        raises == \E i \in DOMAIN ranks : top_indices[ranks[i]] \notin DOMAIN metadata
    IN  [made |-> TRUE, query |-> query, top_k |-> top_k,
         query_tokens |-> _preprocess_text(query),
         bm25_scores |-> bm25_scores,
         top_indices |-> top_indices,
         results |-> IF raises THEN <<>>
                     ELSE [i \in DOMAIN ranks |->
                              Bm25Result(metadata, bm25_scores,
                                         top_indices[ranks[i]], ranks[i])],
         raised |-> IF raises THEN "IndexError" ELSE ""]

\* BM25Search.__init__
Bm25Idle ==
    /\ bm25_corpus = <<>>
    /\ chunk_metadata = <<>>
    /\ bm25_index = NoIndex
    /\ bm25_call = NoSearch
    /\ index_call = NotCalled

(***************************************************************************)
(* The entity and relationship extractor: GraphBuilder.                    *)
(*                                                                         *)
(* A parsed file is what the tree-sitter queries capture in it, in         *)
(* document order: the import names, the class definitions with their      *)
(* first superclass, the function definitions with their first and last    *)
(* line, and the calls of an identifier with their line. Line 130 of the   *)
(* source, strip("'""), does not compile as written; it is modelled as the *)
(* strip of both quote characters.                                         *)
(***************************************************************************)
\* Path(file_path).name
FileName(file_path) ==
    CASE file_path = "pkg/a.py" -> "a.py"
      [] file_path = "pkg/b.ts" -> "b.ts"
      [] OTHER -> file_path

\* capture.text.decode('utf8').strip of the quote characters
StripQuotes(text) ==
    CASE text = "'./util'" -> "./util"
      [] OTHER -> text

\* _get_language_from_extension: None is "".
\* Mutant of _get_language_from_extension: every file is taken as Python.
LanguageAlwaysPython(file_path) == "python"

_get_language_from_extension(file_path) ==
    LET ext == PathSuffix(file_path)
    IN  IF ext = ".py" THEN "python"
        ELSE IF ext \in {".ts", ".tsx"} THEN "typescript"
        ELSE ""

\* Node(label=..., properties=...): the id is the uuid4 value drawn.
NewNode(uuid, label, properties) ==
    [id |-> uuid, label |-> label, properties |-> properties]

\* Relationship(source_id=..., target_id=..., type=...)
Relationship(source_id, target_id, type) ==
    [source_id |-> source_id, target_id |-> target_id, type |-> type,
     properties |-> EmptyDict]

\* The locals of _extract_entities_and_relations, and the next uuid4 value.
ExtractStart(uuid) ==
    [nodes |-> <<>>, relationships |-> <<>>, entity_map |-> EmptyDict,
     function_definitions |-> <<>>, uuid |-> uuid]

RECURSIVE ImportsLoop(_, _, _, _)
\* The loop over the import captures from position i on.
ImportsLoop(st, file_node, imports, i) ==
    IF i > Len(imports) THEN st
    ELSE LET name == StripQuotes(imports[i])
             node == NewNode(st.uuid, "Module", [name |-> name])
         IN  ImportsLoop(
                 IF name \notin DOMAIN st.entity_map
                 THEN [st EXCEPT
                          !.nodes = Append(@, node),
                          !.entity_map = DictSet(@, name, [id |-> node.id, type |-> "Module"]),
                          !.relationships = Append(@, Relationship(file_node.id, node.id,
                                                                   "IMPORTS")),
                          !.uuid = @ + 1]
                 ELSE st,
                 file_node, imports, i + 1)

\* The captures of one class definition: class_def, name, then superclass if any.
ClassCaptures(st, file_node, class) ==
    LET class_node == NewNode(st.uuid, "Class",
                              [name |-> class.name, file_path |-> file_node.properties.path])
        named == [st EXCEPT
                     !.nodes = Append(@, class_node),
                     !.entity_map = DictSet(@, class.name,
                                            [id |-> class_node.id, type |-> "Class"]),
                     !.relationships = Append(@, Relationship(file_node.id, class_node.id,
                                                              "CONTAINS")),
                     !.uuid = @ + 1]
        superclass_node == NewNode(named.uuid, "Class", [name |-> class.superclass])
        known == IF class.superclass \notin DOMAIN named.entity_map
                 THEN [named EXCEPT
                          !.nodes = Append(@, superclass_node),
                          !.entity_map = DictSet(@, class.superclass,
                                                 [id |-> superclass_node.id,
                                                  type |-> "Class"]),
                          !.uuid = @ + 1]
                 ELSE named
    IN  IF class.superclass = "" THEN named
        ELSE [known EXCEPT
                 !.relationships =
                     Append(@, Relationship(known.entity_map[class.name].id,
                                            known.entity_map[class.superclass].id,
                                            "INHERITS_FROM"))]

RECURSIVE ClassesLoop(_, _, _, _)
\* The loop over the class captures from class i on.
ClassesLoop(st, file_node, classes, i) ==
    IF i > Len(classes) THEN st
    ELSE ClassesLoop(ClassCaptures(st, file_node, classes[i]), file_node, classes, i + 1)

RECURSIVE FunctionsLoop(_, _, _, _)
\* The loop over the function captures from function i on.
FunctionsLoop(st, file_node, functions, i) ==
    IF i > Len(functions) THEN st
    ELSE LET func_node == NewNode(st.uuid, "Function",
                                  [name |-> functions[i].name,
                                   file_path |-> file_node.properties.path])
         IN  FunctionsLoop(
                 [st EXCEPT
                     !.nodes = Append(@, func_node),
                     !.entity_map = DictSet(@, functions[i].name,
                                            [id |-> func_node.id, type |-> "Function"]),
                     !.relationships = Append(@, Relationship(file_node.id, func_node.id,
                                                              "CONTAINS")),
                     !.function_definitions =
                         Append(@, [name |-> functions[i].name, id |-> func_node.id,
                                    start_line |-> functions[i].start_line,
                                    end_line |-> functions[i].end_line]),
                     !.uuid = @ + 1],
                 file_node, functions, i + 1)

\* The function definitions whose lines hold the call line, by position.
Callers(function_definitions, call_line) ==
    {k \in DOMAIN function_definitions :
        /\ function_definitions[k].start_line <= call_line
        /\ call_line <= function_definitions[k].end_line}

RECURSIVE CallsLoop(_, _, _)
\* Pass 2: the loop over the call captures from call i on.
CallsLoop(st, calls, i) ==
    IF i > Len(calls) THEN st
    ELSE LET found == Callers(st.function_definitions, calls[i].line)
             caller_func == st.function_definitions[
                                CHOOSE k \in found : \A other \in found : k <= other]
         IN  CallsLoop(
                 IF found # {} /\ calls[i].name \in DOMAIN st.entity_map
                 THEN [st EXCEPT
                          !.relationships =
                              Append(@, Relationship(caller_func.id,
                                                     st.entity_map[calls[i].name].id,
                                                     "CALLS"))]
                 ELSE st,
                 calls, i + 1)

\* _extract_entities_and_relations: imports, classes, functions, then calls when
\* a function was defined.
_extract_entities_and_relations(file, file_node, uuid) ==
    LET pass1 == FunctionsLoop(
                     ClassesLoop(
                         ImportsLoop(ExtractStart(uuid), file_node, file.imports, 1),
                         file_node, file.classes, 1),
                     file_node, file.functions, 1)
    IN  IF pass1.function_definitions # <<>> THEN CallsLoop(pass1, file.calls, 1)
        ELSE pass1

\* relationships.extend(relationships), relationships being the extracted list.
ExtendRelationships(relationships) == relationships \o relationships

\* build_graph_for_file(file_path, code_content): the (nodes, relationships)
\* returned; parses is whether set_language and parse went through.
build_graph_for_file(file, parses, uuid) ==
    IF _get_language_from_extension(file.file_path) = "" \/ ~parses
    THEN [nodes |-> <<>>, relationships |-> <<>>]
    ELSE LET file_node == NewNode(uuid, "File",
                                  [name |-> FileName(file.file_path),
                                   path |-> file.file_path])
             extracted == _extract_entities_and_relations(file, file_node, uuid + 1)
         IN  [nodes |-> <<file_node>> \o extracted.nodes,
              relationships |-> ExtendRelationships(extracted.relationships)]

NoExtract == [made |-> FALSE]

\* GraphBuilder.__init__; no uuid4 value drawn yet.
ExtractIdle ==
    /\ uuid_next = 0
    /\ extract_call = NoExtract

(***************************************************************************)
(* Inputs and actions of the keyword ranker.                               *)
(***************************************************************************)
MaxDocs == 3

LineDefHello == <<"def", "hello", "(", ")", ":">>

LineReturn == <<"return", "1">>

LineDefMain == <<"def", "main", "(", ")", ":">>

LineCallHello == <<"hello", "(", ")">>

\* hello() that makes no calls, and main() that calls hello().
HelloContent == <<LineDefHello, LineReturn>>

MainContent == <<LineDefMain, LineCallHello>>

\* A chunk whose tokens are all dropped.
ShortContent == <<<<"x">>>>

Bm25Contents == {HelloContent, MainContent, ShortContent}

\* The i-th chunk of a chunk list.
Bm25Chunk(i, content) ==
    [id |-> "c" \o ToString(i), file_path |-> "a.py", content |-> content,
     start_line |-> i, end_line |-> i + Len(content) - 1, language |-> "python",
     chunk_type |-> "function", metadata |-> EmptyDict]

Bm25ChunkLists ==
    UNION {{[i \in 1..n |-> Bm25Chunk(i, c[i])] : c \in [1..n -> Bm25Contents]} :
              n \in 0..MaxDocs}

QueryHello == <<<<"hello">>>>

\* Queries with at most one token of the vocabulary: hello, Hello(), x, zzz main.
Queries == {QueryHello, <<<<"Hello", "(", ")">>>>, <<<<"x">>>>, <<<<"zzz", "main">>>>}

\* The entry index_chunks appends to chunk_metadata.
ChunkMetadata(chunk) ==
    [chunk_id |-> chunk.id, file_path |-> chunk.file_path, language |-> chunk.language,
     chunk_type |-> chunk.chunk_type, start_line |-> chunk.start_line,
     end_line |-> chunk.end_line]

\* BM25Search.index_chunks(chunks): nothing for an empty list; otherwise corpus
\* and chunk_metadata are rebuilt, and self.bm25 is replaced unless BM25Okapi
\* raises. A build discards the recorded call, so a build after a search gives
\* the state the same build gives before it: builds are taken from the states
\* without a recorded call.
IndexChunks ==
    /\ ~bm25_call.made
    /\ \E chunk_list \in Bm25ChunkLists :
          IF chunk_list = <<>>
          THEN /\ index_call' = [made |-> TRUE, chunk_list |-> chunk_list]
               /\ UNCHANGED <<bm25_corpus, chunk_metadata, bm25_index, bm25_call>>
          ELSE LET corpus == [i \in DOMAIN chunk_list |->
                                 _preprocess_text(chunk_list[i].content)]
               IN  /\ bm25_corpus' = corpus
                   /\ chunk_metadata' = [i \in DOMAIN chunk_list |->
                                            ChunkMetadata(chunk_list[i])]
                   /\ bm25_index' = IF RaisesZeroDivision(corpus) THEN bm25_index
                                    ELSE BM25Okapi(corpus)
                   /\ bm25_call' = NoSearch
                   /\ index_call' = [made |-> TRUE, chunk_list |-> chunk_list]
    /\ UNCHANGED nonBm25Vars

\* Mutant of Search: the `if not self.bm25` guard is missing, so get_scores is
\* called on None when no index was built.
SearchUnguarded ==
    /\ ~bm25_call.made
    /\ \E query \in Queries, top_k \in 1..MaxTopK :
          IF ~bm25_index.built
          THEN bm25_call' = [NoSearch EXCEPT !.made = TRUE, !.query = query,
                                             !.top_k = top_k,
                                             !.query_tokens = _preprocess_text(query),
                                             !.raised = "AttributeError"]
          ELSE LET bm25_scores == get_scores(bm25_index, _preprocess_text(query))
               IN  \E top_indices \in TopIndices(bm25_scores, top_k) :
                      bm25_call' = SearchCall(bm25_index, chunk_metadata, query, top_k,
                                              bm25_scores, top_indices)
    /\ UNCHANGED <<bm25_corpus, chunk_metadata, bm25_index, index_call>>
    /\ UNCHANGED nonBm25Vars

\* BM25Search.search(query, top_k). A search leaves the index alone and replaces
\* the recorded call, so a search after a search gives the state the same search
\* gives alone: searches are taken from the states without a recorded call.
Search ==
    /\ ~bm25_call.made
    /\ \E query \in Queries, top_k \in 1..MaxTopK :
          IF ~bm25_index.built
          THEN bm25_call' = [NoSearch EXCEPT !.made = TRUE, !.query = query,
                                             !.top_k = top_k,
                                             !.query_tokens = _preprocess_text(query)]
          ELSE LET bm25_scores == get_scores(bm25_index, _preprocess_text(query))
               IN  \E top_indices \in TopIndices(bm25_scores, top_k) :
                      bm25_call' = SearchCall(bm25_index, chunk_metadata, query, top_k,
                                              bm25_scores, top_indices)
    /\ UNCHANGED <<bm25_corpus, chunk_metadata, bm25_index, index_call>>
    /\ UNCHANGED nonBm25Vars

InitBM25 == Bm25Idle /\ InitGraph /\ FusionIdle /\ ExtractIdle /\ RestIdle

NextBM25 == IndexChunks \/ Search

SpecBM25 == InitBM25 /\ [][NextBM25]_vars

(***************************************************************************)
(* Inputs and actions of the extractor.                                    *)
(***************************************************************************)
MaxUuid == 8

\* def hello() on lines 0-1 and def main() on lines 2-3 (start_point is 0-based).
HelloMainFunctions ==
    <<[name |-> "hello", start_line |-> 0, end_line |-> 1],
      [name |-> "main", start_line |-> 2, end_line |-> 3]>>

\* main() calls hello() on its last line.
CallHelloInMain == [name |-> "hello", line |-> 3]

\* The file of hello() with no calls and main() with one call to hello().
HelloMainFile ==
    [file_path |-> "pkg/a.py", imports |-> <<>>, classes |-> <<>>,
     functions |-> HelloMainFunctions, calls |-> <<CallHelloInMain>>]

\* Calls captured in a file: none, the call of hello() in main(), that call after
\* a call of an unknown name, a call of hello() outside every function, a
\* call of the class Foo in hello(), and a call of the imported name os in
\* hello().
CallChoices ==
    {<<>>,
     <<CallHelloInMain>>,
     <<[name |-> "print", line |-> 3], CallHelloInMain>>,
     <<[name |-> "hello", line |-> 5]>>,
     <<[name |-> "Foo", line |-> 1]>>,
     <<[name |-> "os", line |-> 1]>>}

ImportChoices == {<<>>, <<"os", "os">>}

ClassChoices == {<<>>, <<[name |-> "Foo", superclass |-> "Base"]>>}

\* The files handed to the extractor: the combinations of the choices, a class
\* called at file scope, a class declared before its subclass, a class
\* declared after its subclass, a TypeScript file and a file that is not code.
ExtractFiles ==
    {[file_path |-> "pkg/a.py", imports |-> i, classes |-> c,
      functions |-> HelloMainFunctions, calls |-> k] :
        i \in ImportChoices, c \in ClassChoices, k \in CallChoices}
    \cup
    {[file_path |-> "pkg/a.py", imports |-> <<>>,
      classes |-> <<[name |-> "Foo", superclass |-> ""]>>,
      functions |-> <<>>, calls |-> <<[name |-> "Foo", line |-> 1]>>],
     [file_path |-> "pkg/a.py", imports |-> <<>>,
      classes |-> <<[name |-> "Base", superclass |-> ""],
                    [name |-> "Foo", superclass |-> "Base"]>>,
      functions |-> <<>>, calls |-> <<>>],
     [file_path |-> "pkg/a.py", imports |-> <<>>,
      classes |-> <<[name |-> "Foo", superclass |-> "Base"],
                    [name |-> "Base", superclass |-> ""]>>,
      functions |-> <<>>, calls |-> <<>>],
     [file_path |-> "pkg/b.ts", imports |-> <<"'./util'">>, classes |-> <<>>,
      functions |-> HelloMainFunctions, calls |-> <<CallHelloInMain>>],
     [file_path |-> "notes.md", imports |-> <<>>, classes |-> <<>>,
      functions |-> <<>>, calls |-> <<>>]}

\* GraphBuilder.build_graph_for_file(file_path, code_content), as long as uuid4
\* values are left.
BuildGraphForFile ==
    /\ \E file \in ExtractFiles, parses \in BOOLEAN :
          LET returned == build_graph_for_file(file, parses, uuid_next)
          IN  /\ uuid_next + Len(returned.nodes) <= MaxUuid
              /\ uuid_next' = uuid_next + Len(returned.nodes)
              /\ extract_call' = [made |-> TRUE, file |-> file, parses |-> parses,
                                  returned |-> returned]
    /\ UNCHANGED nonExtractVars

InitExtract == ExtractIdle /\ InitGraph /\ FusionIdle /\ Bm25Idle /\ RestIdle

NextExtract == BuildGraphForFile

SpecExtract == InitExtract /\ [][NextExtract]_vars


(***************************************************************************)
(* Specifications of the graph store.                                      *)
(***************************************************************************)
\* Node creation on the store.
InitNodes == InitGraph /\ FusionIdle /\ Bm25Idle /\ ExtractIdle /\ RestIdle

NextNodes ==
    \/ CreateFileNode
    \/ CreateChunkNode
    \/ CreateFunctionNode
    \/ CreateClassNode
    \/ ClearDatabase

SpecNodes == InitNodes /\ [][NextNodes]_vars

\* Edge creation on the store: create_relationship and its typed wrappers.
InitEdges == InitGraph /\ FusionIdle /\ Bm25Idle /\ ExtractIdle /\ RestIdle

NextEdges ==
    \/ CreateRelationship
    \/ CreateFileChunkRelationship
    \/ CreateFunctionChunkRelationship
    \/ CreateClassChunkRelationship
    \/ CreateFunctionCallRelationship
    \/ CreateClassInheritanceRelationship
    \/ CreateClassMethodRelationship
    \/ ClearDatabase

SpecEdges == InitEdges /\ [][NextEdges]_vars

\* Indexing passes over a fixed chunk list, on a store that other calls may
\* have written to before.
InitIndex ==
    /\ nodes = InitialNodes
    /\ edges = InitialEdges
    /\ last = NoCall
    /\ chunks \in ChunkLists
    /\ passes = 0
    /\ statsFirst = get_database_stats(InitialNodes, InitialEdges)
    /\ FusionIdle
    /\ Bm25Idle
    /\ ExtractIdle
    /\ RestIdle

NextIndex ==
    \/ CreateGraphData
    \/ CreateFunctionCallRelationship
    \/ ClearDatabase

SpecIndex == InitIndex /\ [][NextIndex]_vars

(***************************************************************************)
(* Claims about the graph store.                                           *)
(***************************************************************************)

\* C1: running the indexing pass over a fixed chunk list a second (or later)
\* time leaves the per-kind node counts and the per-type edge counts of the
\* store as they were right after the first pass.
C1_ReindexKeepsCounts ==
    passes >= 2 => get_database_stats(nodes, edges) = statsFirst

\* C1 witness: two passes have run over a two-chunk list that created function
\* nodes and DEFINED_IN edges.
C1_Witness ==
    /\ passes = 2
    /\ Len(chunks) = 2
    /\ statsFirst.nodes["Function"] >= 1
    /\ statsFirst.nodes["Chunk"] = 2
    /\ statsFirst.relationships["DEFINED_IN"] >= 1
    /\ statsFirst.relationships["CONTAINS"] = 2

\* C2: no two stored edges share a (source_id, target_id, relationship_type)
\* triple, and a create_relationship on a stored triple leaves the edge count
\* unchanged and merges the new properties into the stored edge (new keys
\* override, the other stored keys stay).
C2_EdgeTriplesUnique ==
    /\ \A i, j \in DOMAIN edges : Triple(edges[i]) = Triple(edges[j]) => i = j
    /\ (last.op = "create_relationship" /\ last.existed) =>
          /\ Len(edges) = last.count
          /\ \E i \in DOMAIN edges :
                /\ Triple(edges[i]) = last.triple
                /\ DOMAIN edges[i].properties
                      = (DOMAIN last.before) \cup (DOMAIN last.properties)
                /\ \A k \in DOMAIN last.properties :
                      edges[i].properties[k] = last.properties[k]
                /\ \A k \in (DOMAIN last.before) \ (DOMAIN last.properties) :
                      edges[i].properties[k] = last.before[k]

\* C2 witness: a stored triple was re-created with properties that override one
\* stored key and leave another.
C2_Witness ==
    /\ last.op = "create_relationship"
    /\ last.existed
    /\ last.before = [weight |-> 2, note |-> 1]
    /\ last.properties = [weight |-> 1]
    /\ Len(edges) = 2

\* C3: entity ids are unique per kind: creating an entity whose id exists for
\* that kind adds no node, and creating an entity of one kind leaves an
\* existing entity of another kind with the same id string in the store,
\* unchanged.
C3_IdsScopedByKind ==
    last.op = "create_node" =>
        /\ (last.before = last.type => Cardinality(DOMAIN nodes) = last.count)
        /\ (last.before \notin {"none", last.type} =>
               \E id \in DOMAIN nodes : nodes[id] = last.before_data[1])

(***************************************************************************)
(* Specification of score fusion.                                          *)
(***************************************************************************)
InitFusionSpec == InitFusion /\ InitGraph /\ Bm25Idle /\ ExtractIdle /\ RestIdle

NextFusion ==
    \/ CombineResults
    \/ CombineResultsMirrored

SpecFusion == InitFusionSpec /\ [][NextFusion]_vars

(***************************************************************************)
(* Claims about score fusion. The expected values are stated from the      *)
(* arguments alone.                                                        *)
(***************************************************************************)
ListIds(r) == {r[i].chunk_id : i \in DOMAIN r}

ListScores(r) == {r[i].score : i \in DOMAIN r}

RawScore(r, id) == r[CHOOSE i \in DOMAIN r : r[i].chunk_id = id].score

LowestScore(r) == CHOOSE m \in ListScores(r) : \A x \in ListScores(r) : m <= x

HighestScore(r) == CHOOSE m \in ListScores(r) : \A x \in ListScores(r) : x <= m

Uniform(r) == Cardinality(ListScores(r)) = 1

\* The min-max normalized score of id in list r as the design states it: 0 when
\* id is not in r, 0.5 when the scores of r are all equal.
ExpectedNorm(r, id) ==
    IF id \notin ListIds(r) THEN RatZero
    ELSE IF Uniform(r) THEN RatHalf
    ELSE Rat(RawScore(r, id) - LowestScore(r), HighestScore(r) - LowestScore(r))

UnionIds == ListIds(fusion_args.vector_results) \cup ListIds(fusion_args.bm25_results)

\* normVector * wVector + normBm25 * wBm25 for the chunk id.
ExpectedCombined(id) ==
    RatAdd(RatMul(ExpectedNorm(fusion_args.vector_results, id), fusion_args.vector_weight),
           RatMul(ExpectedNorm(fusion_args.bm25_results, id), fusion_args.bm25_weight))

Candidates(id) == {i \in DOMAIN final_results : final_results[i].chunk_id = id}

DictEntries(d, id) == {i \in DOMAIN d : d[i].chunk_id = id}

\* C4: score fusion gives every chunk id of the union exactly one candidate,
\* whose combined score is normVector * wVector + normBm25 * wBm25, a list the
\* id is missing from counting as 0; no candidate is returned twice, every
\* returned candidate carries that score, and all of them are returned when
\* top_k does not cut the list.
C4_UnionScoredOnce ==
    "direct" \in fusion_calls =>
        /\ DictIds(combined_dict) = UnionIds
        /\ \A id \in UnionIds :
              /\ Cardinality(DictEntries(combined_dict, id)) = 1
              /\ \A i \in DictEntries(combined_dict, id) :
                    combined_dict[i].combined_score = ExpectedCombined(id)
              /\ Cardinality(Candidates(id)) <= 1
              /\ fusion_args.top_k >= Cardinality(UnionIds)
                    => Cardinality(Candidates(id)) = 1
        /\ \A i \in DOMAIN final_results :
              /\ final_results[i].chunk_id \in UnionIds
              /\ final_results[i].score = ExpectedCombined(final_results[i].chunk_id)

\* C4 witness: nothing is cut off, and the union holds an id of the vector list
\* only, an id of the BM25 list only and an id of both, with spread scores.
C4_Witness ==
    /\ "direct" \in fusion_calls
    /\ Len(final_results) = 3
    /\ UnionIds = {"A", "B", "D"}
    /\ ~Uniform(fusion_args.vector_results)
    /\ ~Uniform(fusion_args.bm25_results)
    /\ fusion_args.vector_weight # fusion_args.bm25_weight

DictEntry(d, id) == d[CHOOSE i \in DOMAIN d : d[i].chunk_id = id]

\* C5: min-max normalization gives every element of a single-element or
\* uniform list exactly 0.5, and otherwise gives the list's minimum 0 and its
\* maximum 1.
C5_MinMaxNormalization ==
    "direct" \in fusion_calls =>
        /\ \A id \in ListIds(fusion_args.vector_results) :
              LET q == DictEntry(combined_dict, id).vector_score
                  r == fusion_args.vector_results
              IN  /\ Uniform(r) => (q.n = 1 /\ q.d = 2)
                  /\ (~Uniform(r) /\ RawScore(r, id) = LowestScore(r)) => q.n = 0
                  /\ (~Uniform(r) /\ RawScore(r, id) = HighestScore(r)) => q.n = q.d
        /\ \A id \in ListIds(fusion_args.bm25_results) :
              LET q == DictEntry(combined_dict, id).bm25_score
                  r == fusion_args.bm25_results
              IN  /\ Uniform(r) => (q.n = 1 /\ q.d = 2)
                  /\ (~Uniform(r) /\ RawScore(r, id) = LowestScore(r)) => q.n = 0
                  /\ (~Uniform(r) /\ RawScore(r, id) = HighestScore(r)) => q.n = q.d

\* C5 witness: a uniform three-element vector list and a single-element BM25 list.
C5_Witness ==
    /\ "direct" \in fusion_calls
    /\ Len(fusion_args.vector_results) = 3
    /\ Uniform(fusion_args.vector_results)
    /\ Len(fusion_args.bm25_results) = 1

\* C6: fusing (V, B, wV, wB) and fusing (B, V, wB, wV) give every chunk id the
\* same combined score.
C6_FusionSymmetric ==
    {"direct", "mirrored"} \subseteq fusion_calls =>
        /\ DictIds(combined_dict) = UnionIds
        /\ DictIds(mirror_dict) = UnionIds
        /\ \A id \in UnionIds :
              DictEntry(combined_dict, id).combined_score
                  = DictEntry(mirror_dict, id).combined_score

\* C6 witness: both calls made on lists that overlap, with spread scores and
\* different weights.
C6_Witness ==
    /\ {"direct", "mirrored"} \subseteq fusion_calls
    /\ UnionIds = {"A", "B", "C", "D"}
    /\ "B" \in ListIds(fusion_args.vector_results) \cap ListIds(fusion_args.bm25_results)
    /\ ~Uniform(fusion_args.vector_results)
    /\ ~Uniform(fusion_args.bm25_results)
    /\ fusion_args.vector_weight # fusion_args.bm25_weight

\* C7: the output is the top_k highest-combinedScore candidates of the whole
\* union, in descending order of combined score, ranked 1..n.
C7_TopKAfterFusion ==
    "direct" \in fusion_calls =>
        /\ Len(final_results) = Min2(fusion_args.top_k, Cardinality(UnionIds))
        /\ \A i \in DOMAIN final_results :
              /\ final_results[i].rank = i
              /\ final_results[i].chunk_id \in UnionIds
              /\ final_results[i].score = ExpectedCombined(final_results[i].chunk_id)
        /\ \A i, j \in DOMAIN final_results :
              /\ i < j => RatLeq(final_results[j].score, final_results[i].score)
              /\ i # j => final_results[i].chunk_id # final_results[j].chunk_id
        /\ \A id \in UnionIds :
              Candidates(id) = {} =>
                  \A i \in DOMAIN final_results :
                      RatLeq(ExpectedCombined(id), final_results[i].score)

\* C7 witness: the union is larger than top_k, and the first candidate returned
\* is absent from the vector list.
C7_Witness ==
    /\ "direct" \in fusion_calls
    /\ fusion_args.top_k < Cardinality(UnionIds)
    /\ final_results[1].chunk_id \notin ListIds(fusion_args.vector_results)
    /\ Len(fusion_args.vector_results) >= 2

(***************************************************************************)
(* Claims about the keyword ranker.                                        *)
(***************************************************************************)
\* The documents of the index that hold a token of the query.
HoldsQueryTerm(d) ==
    \E i \in DOMAIN bm25_call.query_tokens :
        QFreq(bm25_index.doc_freqs[d], bm25_call.query_tokens[i]) > 0

\* C8: the score search computes for a document that holds a query term is
\* non-negative, whatever the corpus size and the document frequency.
C8_ScoresNonNegative ==
    (bm25_call.made /\ bm25_index.built) =>
        \A d \in DOMAIN bm25_call.bm25_scores :
            HoldsQueryTerm(d) => ValueSign(bm25_call.bm25_scores[d]) >= 0

\* The index is built over exactly the hello() chunk and the main() chunk.
HelloMainCorpus ==
    /\ bm25_index.built
    /\ bm25_index.corpus_size = 2
    /\ Range(bm25_corpus) = {_preprocess_text(HelloContent), _preprocess_text(MainContent)}
    /\ Len(bm25_corpus) = 2

\* The chunk id indexed with the content.
ChunkIdOf(content) ==
    chunk_metadata[CHOOSE d \in DOMAIN bm25_corpus :
                      bm25_corpus[d] = _preprocess_text(content)].chunk_id

\* C9: over the corpus of the hello() chunk and the main() chunk, a search for
\* hello returns the hello() chunk, at a better rank than the main() chunk.
C9_HelloRankedAboveMain ==
    (bm25_call.made /\ bm25_call.query = QueryHello /\ HelloMainCorpus) =>
        \E i \in DOMAIN bm25_call.results :
            /\ bm25_call.results[i].chunk.id = ChunkIdOf(HelloContent)
            /\ \A j \in DOMAIN bm25_call.results :
                  bm25_call.results[j].chunk.id = ChunkIdOf(MainContent)
                      => bm25_call.results[i].rank < bm25_call.results[j].rank

(***************************************************************************)
(* Claims about the extractor.                                             *)
(***************************************************************************)
\* The ids of the returned nodes with the label and the name.
ReturnedIds(label, name) ==
    {extract_call.returned.nodes[i].id : i \in
        {i \in DOMAIN extract_call.returned.nodes :
            /\ extract_call.returned.nodes[i].label = label
            /\ extract_call.returned.nodes[i].properties.name = name}}

\* The positions of the CALLS edges in the returned relationship list.
CallsEdges ==
    {i \in DOMAIN extract_call.returned.relationships :
        extract_call.returned.relationships[i].type = "CALLS"}

\* C10: for the file of hello() with no calls and main() with one call to
\* hello(), the returned relationship list holds exactly one CALLS edge, from
\* the Function node of main to the Function node of hello.
C10_OneCallsEdge ==
    (extract_call.made /\ extract_call.parses /\ extract_call.file = HelloMainFile) =>
        /\ Cardinality(CallsEdges) = 1
        /\ \A i \in CallsEdges :
              /\ extract_call.returned.relationships[i].source_id
                    \in ReturnedIds("Function", "main")
              /\ extract_call.returned.relationships[i].target_id
                    \in ReturnedIds("Function", "hello")

(***************************************************************************)
(* Graph reranker: src/src/search/rerank_service.py, class GraphReranker.  *)
(* Text (queries, node ids, chunk content) is a sequence of one-character  *)
(* strings, so that lower(), split(), strip() and the substring test `in`  *)
(* are computed character by character.                                    *)
(***************************************************************************)

RatMin(a, b) == IF RatLeq(a, b) THEN a ELSE b

RatMax(a, b) == IF RatLeq(a, b) THEN b ELSE a

RatDiv(a, b) == Rat(a.n * b.d, a.d * b.n)

RatInt(i) == Rat(i, 1)

\* str.lower() on the letters the inputs use.
LowerChar(c) ==
    CASE c = "A" -> "a"
      [] c = "B" -> "b"
      [] c = "C" -> "c"
      [] c = "E" -> "e"
      [] c = "F" -> "f"
      [] c = "I" -> "i"
      [] OTHER -> c

LowerText(text) == [i \in DOMAIN text |-> LowerChar(text[i])]

\* Python's `sub in text` on strings.
InText(sub, text) ==
    \E i \in 1..(Len(text) - Len(sub) + 1) : SubSeq(text, i, i + Len(sub) - 1) = sub

StartsWith(text, prefix) ==
    /\ Len(prefix) <= Len(text)
    /\ SubSeq(text, 1, Len(prefix)) = prefix

Whitespace == {" ", "\t", "\n", "\r"}

RECURSIVE LStrip(_)
LStrip(text) ==
    IF text # <<>> /\ Head(text) \in Whitespace THEN LStrip(Tail(text)) ELSE text

RECURSIVE RStrip(_)
RStrip(text) ==
    IF text # <<>> /\ text[Len(text)] \in Whitespace
    THEN RStrip(SubSeq(text, 1, Len(text) - 1))
    ELSE text

Strip(text) == RStrip(LStrip(text))

\* content.split('\n')
RECURSIVE SplitLines(_)
SplitLines(text) ==
    IF \A i \in DOMAIN text : text[i] # "\n"
    THEN <<text>>
    ELSE LET i == CHOOSE j \in DOMAIN text :
                      /\ text[j] = "\n"
                      /\ \A k \in 1..(j - 1) : text[k] # "\n"
         IN  <<SubSeq(text, 1, i - 1)>> \o SplitLines(SubSeq(text, i + 1, Len(text)))

MaxOfSet(S, default) == IF S = {} THEN default ELSE CHOOSE m \in S : \A x \in S : x <= m

\* The positions of a list whose element satisfies a test, as a count.
CountEdges(graph_result, Test(_)) ==
    Cardinality({i \in DOMAIN graph_result.edges : Test(graph_result.edges[i])})

CountNodes(graph_result, Test(_)) ==
    Cardinality({i \in DOMAIN graph_result.nodes : Test(graph_result.nodes[i])})

\* The hard depth limit of the two recursive traversals (`current_depth > 10`).
DepthCap == 10

_calculate_degree_centrality(graph_result) ==
    IF graph_result.nodes = <<>>
    THEN RatZero
    ELSE LET ends == {graph_result.edges[i].source_id : i \in DOMAIN graph_result.edges}
                     \cup {graph_result.edges[i].target_id : i \in DOMAIN graph_result.edges}
             node_degrees(id) ==
                 CountEdges(graph_result, LAMBDA e : e.source_id = id)
                 + CountEdges(graph_result, LAMBDA e : e.target_id = id)
         IN  IF ends = {}
             THEN RatZero
             ELSE Rat(MaxOfSet({node_degrees(id) : id \in ends}, 0), Len(graph_result.nodes))

_count_query_function_matches(query, graph_result) ==
    CountNodes(graph_result,
               LAMBDA node : node.type = "Function" /\ InText(LowerText(query), LowerText(node.id)))

_count_query_class_matches(query, graph_result) ==
    CountNodes(graph_result,
               LAMBDA node : node.type = "Class" /\ InText(LowerText(query), LowerText(node.id)))

\* The targets of the edges of one relationship type that leave a node.
Targets(id, graph_result, relationship_type) ==
    {graph_result.edges[i].target_id :
        i \in {j \in DOMAIN graph_result.edges :
                  /\ graph_result.edges[j].source_id = id
                  /\ graph_result.edges[j].relationship_type = relationship_type}}

\* The body shared by _calculate_function_call_depth (over CALLS) and
\* _calculate_class_inheritance_depth (over INHERITS_FROM).
RECURSIVE RecursiveDepth(_, _, _, _)
RecursiveDepth(id, graph_result, relationship_type, current_depth) ==
    IF current_depth > DepthCap
    THEN current_depth
    ELSE LET called == Targets(id, graph_result, relationship_type)
         IN  IF called = {}
             THEN current_depth
             ELSE MaxOfSet({RecursiveDepth(t, graph_result, relationship_type, current_depth + 1) :
                               t \in called},
                           current_depth)

_calculate_function_call_depth(function_id, graph_result, current_depth) ==
    RecursiveDepth(function_id, graph_result, "CALLS", current_depth)

_calculate_class_inheritance_depth(class_id, graph_result, current_depth) ==
    RecursiveDepth(class_id, graph_result, "INHERITS_FROM", current_depth)

_calculate_function_depth(result, graph_result) ==
    LET function_nodes == {graph_result.nodes[i].id :
                              i \in {j \in DOMAIN graph_result.nodes :
                                        /\ graph_result.nodes[j].type = "Function"
                                        /\ graph_result.nodes[j].id # result.chunk.id}}
    IN  MaxOfSet({_calculate_function_call_depth(id, graph_result, 0) : id \in function_nodes}, 0)

_calculate_class_hierarchy_depth(result, graph_result) ==
    LET class_nodes == {graph_result.nodes[i].id :
                           i \in {j \in DOMAIN graph_result.nodes :
                                     graph_result.nodes[j].type = "Class"}}
    IN  MaxOfSet({_calculate_class_inheritance_depth(id, graph_result, 0) : id \in class_nodes}, 0)

_calculate_call_frequency(result, graph_result) ==
    LET incoming_calls ==
            CountEdges(graph_result,
                       LAMBDA e : e.target_id = result.chunk.id /\ e.relationship_type = "CALLS")
    IN  IF Len(graph_result.nodes) = 0
        THEN RatZero
        ELSE Rat(incoming_calls, Len(graph_result.nodes))

_calculate_inheritance_importance(result, graph_result) ==
    LET children_classes ==
            CountEdges(graph_result,
                       LAMBDA e : /\ e.target_id = result.chunk.id
                                  /\ e.relationship_type = "INHERITS_FROM")
    IN  IF Len(graph_result.nodes) = 0
        THEN RatZero
        ELSE Rat(children_classes, Len(graph_result.nodes))

control_keywords ==
    << <<"i", "f">>, <<"e", "l", "s", "e">>, <<"e", "l", "i", "f">>, <<"f", "o", "r">>,
       <<"w", "h", "i", "l", "e">>, <<"t", "r", "y">>, <<"e", "x", "c", "e", "p", "t">>,
       <<"c", "a", "t", "c", "h">>, <<"s", "w", "i", "t", "c", "h">> >>

_estimate_code_complexity(result) ==
    LET content == result.chunk.content
        lines == SplitLines(content)
        keyword_hits ==
            Cardinality({p \in (DOMAIN lines) \X (DOMAIN control_keywords) :
                            InText(control_keywords[p[2]], LowerText(lines[p[1]]))})
        max_indentation ==
            MaxOfSet({Len(lines[i]) - Len(LStrip(lines[i])) :
                         i \in {j \in DOMAIN lines : Strip(lines[j]) # <<>>}},
                     0)
        complexity_score == keyword_hits + (max_indentation \div 4)
        content_length == Len(content)
        per_thousand == IF content_length > 0
                        THEN Rat(complexity_score * 1000, content_length)
                        ELSE RatInt(complexity_score)
    IN  RatMin(per_thousand, RatOne)

_calculate_documentation_score(result) ==
    LET lines == SplitLines(result.chunk.content)
        IsDocumentation(line) ==
            LET stripped == Strip(line)
            IN  \/ StartsWith(stripped, <<"#">>)
                \/ StartsWith(stripped, <<"/", "/">>)
                \/ StartsWith(stripped, <<"/", "*">>)
                \/ InText(<<"\"", "\"", "\"">>, stripped)
                \/ InText(<<"'", "'", "'">>, stripped)
        documentation_lines == Cardinality({i \in DOMAIN lines : IsDocumentation(lines[i])})
        total_lines == Cardinality({i \in DOMAIN lines : Strip(lines[i]) # <<>>})
    IN  IF total_lines = 0
        THEN RatZero
        ELSE RatMin(Rat(documentation_lines, total_lines), RatOne)

_extract_graph_features(result, query, graph_result) ==
    [node_count |-> RatInt(Len(graph_result.nodes)),
     edge_count |-> RatInt(Len(graph_result.edges)),
     degree_centrality |-> _calculate_degree_centrality(graph_result),
     query_function_matches |-> RatInt(_count_query_function_matches(query, graph_result)),
     query_class_matches |-> RatInt(_count_query_class_matches(query, graph_result)),
     function_depth |-> RatInt(_calculate_function_depth(result, graph_result)),
     class_hierarchy_depth |-> RatInt(_calculate_class_hierarchy_depth(result, graph_result)),
     call_frequency |-> _calculate_call_frequency(result, graph_result),
     inheritance_importance |-> _calculate_inheritance_importance(result, graph_result),
     code_complexity |-> _estimate_code_complexity(result),
     documentation_score |-> _calculate_documentation_score(result)]

\* The weight table of _calculate_feature_score.
weights ==
    [degree_centrality |-> Rat(2, 10),
     query_function_matches |-> Rat(3, 10),
     query_class_matches |-> Rat(3, 10),
     function_depth |-> Rat(1, 10),
     class_hierarchy_depth |-> Rat(1, 10),
     call_frequency |-> Rat(2, 10),
     inheritance_importance |-> Rat(2, 10),
     code_complexity |-> Rat(1, 10),
     documentation_score |-> Rat(1, 10)]

\* The sum of f[k] over a finite set of keys.
RECURSIVE RatSum(_, _)
RatSum(keys, f) ==
    IF keys = {}
    THEN RatZero
    ELSE LET k == CHOOSE x \in keys : TRUE
         IN  RatAdd(f[k], RatSum(keys \ {k}, f))

\* Mutant of _calculate_feature_score: the feature values are not clipped.
FeatureScoreUnclipped(features) ==
    LET keys == (DOMAIN features) \cap (DOMAIN weights)
    IN  IF keys = {}
        THEN RatZero
        ELSE RatDiv(RatSum(keys, [k \in keys |-> RatMul(features[k], weights[k])]),
                    RatSum(keys, weights))

_calculate_feature_score(features) ==
    LET keys == (DOMAIN features) \cap (DOMAIN weights)
        normalized_features ==
            [k \in keys |-> RatMin(RatDiv(features[k], RatMax(RatOne, weights[k])), RatOne)]
        total_score == RatSum(keys, [k \in keys |-> RatMul(normalized_features[k], weights[k])])
        total_weight == RatSum(keys, weights)
    IN  IF total_weight = RatZero
        THEN RatZero
        ELSE RatDiv(total_score, total_weight)

\* settings.rerank_threshold, default 0.5.
rerank_threshold == Rat(1, 2)

\* Mutant of _combine_scores: a graph score equal to the threshold takes the
\* high-graph-score weights.
CombineScoresAtThreshold(original_score, graph_score) ==
    IF RatLeq(rerank_threshold, graph_score)
    THEN RatAdd(RatMul(original_score, Rat(6, 10)), RatMul(graph_score, Rat(4, 10)))
    ELSE RatAdd(RatMul(original_score, Rat(8, 10)), RatMul(graph_score, Rat(2, 10)))

_combine_scores(original_score, graph_score) ==
    LET high == RatLess(rerank_threshold, graph_score)
        graph_weight == IF high THEN Rat(4, 10) ELSE Rat(2, 10)
        original_weight == IF high THEN Rat(6, 10) ELSE Rat(8, 10)
    IN  RatAdd(RatMul(original_score, original_weight), RatMul(graph_score, graph_weight))

\* What find_related_chunks does for one candidate: it returns a GraphResult
\* or it raises.
QueryRaises == [raises |-> TRUE]

\* Mutant of _calculate_graph_score: the failure of the neighborhood query
\* is not caught.
GraphScoreUncaught(result, query, neighborhood) ==
    IF neighborhood.raises
    THEN [raised |-> TRUE, value |-> RatZero]
    ELSE [raised |-> FALSE,
          value |-> _calculate_feature_score(_extract_graph_features(result, query, neighborhood))]

\* _calculate_graph_score: the whole body is inside try/except Exception.
_calculate_graph_score(result, query, neighborhood) ==
    IF neighborhood.raises
    THEN [raised |-> FALSE, value |-> RatZero]
    ELSE [raised |-> FALSE,
          value |-> _calculate_feature_score(_extract_graph_features(result, query, neighborhood))]

\* list.sort(key=score, reverse=True): stable, descending. The position of
\* element i of a list of scored results after the sort.
RerankPosition(scored, i) ==
    1 + Cardinality({j \in DOMAIN scored :
                        \/ RatLess(scored[i].score, scored[j].score)
                        \/ (scored[j].score = scored[i].score /\ j < i)})

\* The tail of rerank_results: `return reranked_results[:top_k]`.
RerankCut(top_k, reranked) ==
    [raised |-> FALSE,
     reranked |-> reranked,
     returned |-> SubSeq(reranked, 1, Min2(top_k, Len(reranked)))]

\* Mutant of RerankSort: the list is not sorted before the ranks are numbered.
RerankNoSort(top_k, scored) ==
    RerankCut(top_k, [p \in DOMAIN scored |-> [rank |-> p] @@ scored[p]])

\* The sort of rerank_results and the loop that numbers the ranks from 1.
RerankSort(top_k, scored) ==
    RerankCut(top_k,
              [p \in DOMAIN scored |->
                  [rank |-> p] @@ scored[CHOOSE j \in DOMAIN scored : RerankPosition(scored, j) = p]])

\* The SearchResult that the loop of rerank_results appends for one candidate.
RerankedResult(result, graph_score, combined_score) ==
    [chunk |-> result.chunk,
     score |-> combined_score,
     original_score |-> result.score,
     metadata |-> [graph_score |-> graph_score, combined_score |-> combined_score]]

\* The loop of rerank_results once the graph score of each candidate is known.
RerankScored(results, top_k, graph_scores) ==
    IF \E i \in DOMAIN results : graph_scores[i].raised
    THEN [raised |-> TRUE, reranked |-> <<>>, returned |-> <<>>]
    ELSE RerankSort(top_k,
                    [i \in DOMAIN results |->
                        RerankedResult(results[i],
                                       graph_scores[i].value,
                                       _combine_scores(results[i].score, graph_scores[i].value))])

\* rerank_results: what the call returns, given what the neighborhood query
\* does for each candidate.
rerank_results(results, query, top_k, neighborhoods) ==
    IF results = <<>>
    THEN [raised |-> FALSE, reranked |-> <<>>, returned |-> results]
    ELSE RerankScored(results,
                      top_k,
                      [i \in DOMAIN results |->
                          _calculate_graph_score(results[i], query, neighborhoods[i])])

(***************************************************************************)
(* Reranker inputs and action.                                             *)
(***************************************************************************)

MaxRerank == 2

\* Chunk content "x": no control keyword, no indentation, no comment.
PlainText == <<"x">>

\* Chunk content "# d\n    if x": one comment line, one indented `if`.
CommentedText == <<"#", " ", "d", "\n", " ", " ", " ", " ", "i", "f", " ", "x">>

\* The candidates by position: chunk ids c1, c2, c3.
RerankChunks ==
    << [id |-> <<"c", "1">>, content |-> PlainText],
       [id |-> <<"c", "2">>, content |-> CommentedText],
       [id |-> <<"c", "3">>, content |-> PlainText] >>

RerankScores == {Rat(1, 4), RatOne}

\* The queries "foo" and "Bar".
RerankQueries == {<<"f", "o", "o">>, <<"B", "a", "r">>}

NodeFooA == [id |-> <<"f", "o", "o", "_", "a">>, type |-> "Function"]

NodeFooB == [id |-> <<"f", "o", "o", "_", "b">>, type |-> "Function"]

NodeFooBar == [id |-> <<"F", "o", "o", "B", "a", "r">>, type |-> "Class"]

GraphEdge(source_id, target_id, relationship_type) ==
    [source_id |-> source_id, target_id |-> target_id, relationship_type |-> relationship_type]

NodeFooBase == [id |-> <<"B", "a", "s", "e">>, type |-> "Class"]

\* The node the store keeps for a chunk.
ChunkNode(chunk_id) == [id |-> chunk_id, type |-> "Chunk"]

\* The positions of a key list that hold the first occurrence of their key.
FirstOccurrences(keys) == {i \in DOMAIN keys : \A j \in 1..(i - 1) : keys[j] # keys[i]}

\* The elements of a list at the given positions, in list order.
ElementsAt(list, positions) ==
    [p \in 1..Cardinality(positions) |->
        list[CHOOSE i \in positions : Cardinality({j \in positions : j < i}) = p - 1]]

\* JsonGraphClient.find_related_chunks(chunk_id, relationship_types, max_hops):
\* the edges of the listed types that touch chunk_id, and the stored nodes at
\* their ends, both without duplicates; max_hops is not used. data is
\* self.data, with nodes as the list of the dictionary's values.
find_related_chunks(data, chunk_id, relationship_types) ==
    LET touching == {i \in DOMAIN data.edges :
                        /\ data.edges[i].relationship_type \in relationship_types
                        /\ \/ data.edges[i].source_id = chunk_id
                           \/ data.edges[i].target_id = chunk_id}
        found_edges == ElementsAt(data.edges, touching)
        stored == {data.nodes[i].id : i \in DOMAIN data.nodes}
        ends == [p \in 1..(2 * Len(found_edges)) |->
                    IF p % 2 = 1 THEN found_edges[(p + 1) \div 2].source_id
                    ELSE found_edges[p \div 2].target_id]
        found_ids == SelectSeq(ends, LAMBDA id : id \in stored)
        unique_ids == ElementsAt(found_ids, FirstOccurrences(found_ids))
        edge_keys == [i \in DOMAIN found_edges |->
                         <<found_edges[i].source_id, found_edges[i].target_id,
                           found_edges[i].relationship_type>>]
    IN  [raises |-> FALSE,
         nodes |-> [p \in DOMAIN unique_ids |->
                       data.nodes[CHOOSE i \in DOMAIN data.nodes :
                                     data.nodes[i].id = unique_ids[p]]],
         edges |-> ElementsAt(found_edges, FirstOccurrences(edge_keys))]

\* The relationship_types _calculate_graph_score passes to find_related_chunks.
GraphScoreRelationshipTypes == {"CALLS", "DEFINED_IN", "CONTAINS", "HAS_METHOD"}

NeighborhoodKinds == {"empty", "acyclic", "cyclic", "raises"}

\* What the graph store holds around a chunk id: nothing; a function defined
\* in the chunk and a class with the chunk as method, the chunk inheriting
\* from that class and that class from Base; or two functions that call the
\* chunk, one of them called back by it, and a class, with the chunk's own
\* node stored. A store that raises holds nothing that is read.
GraphStore(kind, chunk_id) ==
    CASE kind = "acyclic" ->
            [nodes |-> <<NodeFooA, NodeFooBar, NodeFooBase>>,
             edges |-> <<GraphEdge(NodeFooA.id, chunk_id, "DEFINED_IN"),
                         GraphEdge(NodeFooBar.id, chunk_id, "HAS_METHOD"),
                         GraphEdge(NodeFooBar.id, NodeFooA.id, "CONTAINS"),
                         GraphEdge(chunk_id, NodeFooBar.id, "INHERITS_FROM"),
                         GraphEdge(NodeFooBar.id, NodeFooBase.id, "INHERITS_FROM")>>]
      [] kind = "cyclic" ->
            [nodes |-> <<ChunkNode(chunk_id), NodeFooA, NodeFooB, NodeFooBar>>,
             edges |-> <<GraphEdge(NodeFooA.id, chunk_id, "CALLS"),
                         GraphEdge(chunk_id, NodeFooA.id, "CALLS"),
                         GraphEdge(NodeFooB.id, chunk_id, "CALLS"),
                         GraphEdge(NodeFooA.id, NodeFooB.id, "CALLS"),
                         GraphEdge(NodeFooBar.id, chunk_id, "HAS_METHOD"),
                         GraphEdge(NodeFooA.id, chunk_id, "CALLS")>>]
      [] OTHER -> [nodes |-> <<>>, edges |-> <<>>]

\* What find_related_chunks answers _calculate_graph_score for a chunk id: a
\* failure, or the neighborhood of the chunk in the store.
Neighborhood(kind, chunk_id) ==
    IF kind = "raises"
    THEN QueryRaises
    ELSE find_related_chunks(GraphStore(kind, chunk_id), chunk_id, GraphScoreRelationshipTypes)

\* The record of one call of rerank_results: its arguments, the store around
\* each candidate, what the neighborhood query did for each candidate, and
\* what came back.
RerankCall(results, query, top_k, stores, neighborhoods) ==
    [made |-> TRUE,
     results |-> results,
     query |-> query,
     top_k |-> top_k,
     stores |-> stores,
     neighborhoods |-> neighborhoods]
    @@ rerank_results(results, query, top_k, neighborhoods)

RerankResults ==
    /\ ~rerank_call.made
    /\ \E n \in 0..Min2(MaxRerank, Len(RerankChunks)), query \in RerankQueries, top_k \in 1..MaxRerank :
          \E kinds \in [1..n -> NeighborhoodKinds], scores \in [1..n -> RerankScores] :
             rerank_call' =
                 RerankCall([i \in 1..n |-> [chunk |-> RerankChunks[i], score |-> scores[i]]],
                            query,
                            top_k,
                            [i \in 1..n |-> GraphStore(kinds[i], RerankChunks[i].id)],
                            [i \in 1..n |-> Neighborhood(kinds[i], RerankChunks[i].id)])
    /\ UNCHANGED nonRerankVars

InitRerank ==
    /\ InitGraph
    /\ FusionIdle
    /\ Bm25Idle
    /\ ExtractIdle
    /\ RestIdle

NextRerank == RerankResults

SpecRerank == InitRerank /\ [][NextRerank]_vars

(***************************************************************************)
(* Reranker claims.                                                        *)
(***************************************************************************)

\* The graph score a candidate's own neighborhood gives it; 0 when the
\* neighborhood query failed.
OwnGraphScore(call, i) ==
    IF call.neighborhoods[i].raises
    THEN RatZero
    ELSE _calculate_feature_score(
             _extract_graph_features(call.results[i], call.query, call.neighborhoods[i]))

\* The places of the ranked list that hold the candidate passed at position i.
PlacesOf(call, i) ==
    {p \in DOMAIN call.reranked : call.reranked[p].chunk = call.results[i].chunk}

FailedCandidates(call) == {i \in DOMAIN call.results : call.neighborhoods[i].raises}

\* C11 (as amended): rerank_results never raises when the neighborhood query
\* fails for a candidate; the failed candidate gets graph score 0, every
\* candidate (failed or not) has exactly one place in the ranked list with the
\* graph score of its own neighborhood, and a candidate is returned exactly
\* when its place is within top_k.
C11_FailureScoresZero ==
    rerank_call.made =>
        /\ ~rerank_call.raised
        /\ Len(rerank_call.reranked) = Len(rerank_call.results)
        /\ \A i \in DOMAIN rerank_call.results :
              /\ Cardinality(PlacesOf(rerank_call, i)) = 1
              /\ \A p \in PlacesOf(rerank_call, i) :
                    /\ rerank_call.reranked[p].metadata.graph_score = OwnGraphScore(rerank_call, i)
                    /\ rerank_call.reranked[p].rank = p
                    /\ p <= rerank_call.top_k =>
                          /\ p \in DOMAIN rerank_call.returned
                          /\ rerank_call.returned[p] = rerank_call.reranked[p]
                    /\ p > rerank_call.top_k => p \notin DOMAIN rerank_call.returned

\* C11, witness: the query failed for one candidate and not for another, whose
\* graph score is positive; the failed one is in the returned list.
C11_Witness ==
    /\ rerank_call.made
    /\ \E i \in FailedCandidates(rerank_call) :
          \E p \in DOMAIN rerank_call.returned :
             /\ rerank_call.returned[p].chunk = rerank_call.results[i].chunk
             /\ rerank_call.returned[p].metadata.graph_score = RatZero
    /\ \E i \in (DOMAIN rerank_call.results) \ FailedCandidates(rerank_call) :
          RatLess(RatZero, OwnGraphScore(rerank_call, i))

\* C11, the statement as written: every candidate whose neighborhood query
\* failed is in the returned list.
C11_FailedCandidateReturned ==
    rerank_call.made =>
        \A i \in FailedCandidates(rerank_call) :
           \E p \in DOMAIN rerank_call.returned :
              rerank_call.returned[p].chunk = rerank_call.results[i].chunk

\* C16: the blended score is 0.6*score + 0.4*graphScore when graphScore > 0.5
\* and 0.8*score + 0.2*graphScore otherwise, also at graphScore = 0.5.
C16_BlendRule ==
    rerank_call.made =>
        \A p \in DOMAIN rerank_call.reranked :
           LET r == rerank_call.reranked[p]
               g == r.metadata.graph_score
               ten == RatMul(RatInt(10), r.score)
           IN  IF 2 * g.n > g.d
               THEN ten = RatAdd(RatMul(RatInt(6), r.original_score), RatMul(RatInt(4), g))
               ELSE ten = RatAdd(RatMul(RatInt(8), r.original_score), RatMul(RatInt(2), g))

\* C16, witness: one ranked candidate has graph score exactly 0.5 and another
\* has a graph score above 0.5.
C16_Witness ==
    /\ rerank_call.made
    /\ \E p \in DOMAIN rerank_call.reranked :
          rerank_call.reranked[p].metadata.graph_score = RatHalf
    /\ \E p \in DOMAIN rerank_call.reranked :
          RatLess(RatHalf, rerank_call.reranked[p].metadata.graph_score)

\* min(value, 1) of a feature value.
Clipped(value) == IF value.n > value.d THEN RatOne ELSE value

\* The weighted average of the nine weighted features, each clipped to 1,
\* with weights 0.2, 0.3, 0.3, 0.1, 0.1, 0.2, 0.2, 0.1, 0.1 (total 1.6).
WeightedAverage(f) ==
    LET term(w, value) == RatMul(RatInt(w), Clipped(value))
        sum == RatAdd(term(2, f.degree_centrality),
               RatAdd(term(3, f.query_function_matches),
               RatAdd(term(3, f.query_class_matches),
               RatAdd(term(1, f.function_depth),
               RatAdd(term(1, f.class_hierarchy_depth),
               RatAdd(term(2, f.call_frequency),
               RatAdd(term(2, f.inheritance_importance),
               RatAdd(term(1, f.code_complexity),
                      term(1, f.documentation_score)))))))))
    IN  Rat(sum.n, sum.d * 16)

\* The features of the candidate passed at position i of the last call.
FeaturesOf(call, i) ==
    _extract_graph_features(call.results[i], call.query, call.neighborhoods[i])

Answered(call) == (DOMAIN call.results) \ FailedCandidates(call)

\* C17: the graph score of every candidate whose neighborhood query answered
\* lies in [0,1] and is the weighted average of the nine weighted features
\* clipped to 1; node_count and edge_count do not contribute.
C17_GraphScoreWeightedAverage ==
    rerank_call.made =>
        \A i \in Answered(rerank_call) :
           \A p \in PlacesOf(rerank_call, i) :
              LET g == rerank_call.reranked[p].metadata.graph_score
              IN  /\ 0 <= g.n
                  /\ g.n <= g.d
                  /\ g = WeightedAverage(FeaturesOf(rerank_call, i))

\* C17, witness: a candidate with a feature above 1 (a depth of 11, two
\* matching function names) and a graph score strictly between 0 and 1.
C17_Witness ==
    /\ rerank_call.made
    /\ \E i \in Answered(rerank_call) :
          /\ RatLess(RatOne, FeaturesOf(rerank_call, i).function_depth)
          /\ RatLess(RatOne, FeaturesOf(rerank_call, i).query_function_matches)
          /\ RatLess(RatZero, FeaturesOf(rerank_call, i).node_count)
          /\ \E p \in PlacesOf(rerank_call, i) :
                /\ RatLess(RatZero, rerank_call.reranked[p].metadata.graph_score)
                /\ RatLess(rerank_call.reranked[p].metadata.graph_score, RatOne)

(***************************************************************************)
(* The two depth traversals, one call frame at a time.                     *)
(* _calculate_function_call_depth and _calculate_class_inheritance_depth   *)
(* are the same recursion over CALLS and over INHERITS_FROM edges.  A      *)
(* frame is one activation: its node id, its current_depth, the targets    *)
(* its for loop has not visited yet and its max_depth.                     *)
(***************************************************************************)

\* called_functions / parent_classes: the targets in edge order, repeats kept.
CalledList(id, graph_result, relationship_type) ==
    LET matching == SelectSeq(graph_result.edges,
                              LAMBDA e : /\ e.source_id = id
                                         /\ e.relationship_type = relationship_type)
    IN  [i \in DOMAIN matching |-> matching[i].target_id]

\* Mutant of RemainingCalls: the for loop does not advance.
RemainingCallsSame(called) == called

\* The for loop's advance over called_functions.
RemainingCalls(called) == Tail(called)

NewFrame(id, current_depth) ==
    [id |-> id, current_depth |-> current_depth, phase |-> "test",
     called |-> <<>>, max_depth |-> current_depth]

\* `return value` of the top frame: the caller takes max(max_depth, depth);
\* the outermost return ends the traversal.
ReturnValue(value) ==
    LET below == SubSeq(walk.stack, 1, Len(walk.stack) - 1)
    IN  IF below = <<>>
        THEN walk' = [walk EXCEPT !.stack = <<>>, !.done = TRUE, !.result = value]
        ELSE LET caller == below[Len(below)]
                 max_depth == IF value > caller.max_depth THEN value ELSE caller.max_depth
             IN  walk' = [walk EXCEPT
                            !.stack = [below EXCEPT ![Len(below)].max_depth = max_depth]]

(***************************************************************************)
(* Traversal inputs and actions.                                           *)
(***************************************************************************)

\* A chain, a two-cycle, a self-loop, a two-cycle with a self-loop on it, and
\* a chain with a repeated edge, over one relationship type; every graph also
\* holds an edge of another type that the traversal must skip.
WalkGraphs(relationship_type) ==
    LET E(a, b) == GraphEdge(a, b, relationship_type)
        other == GraphEdge("A", "A", "CONTAINS")
        G(list) == [nodes |-> <<>>, edges |-> <<other>> \o list]
    IN  {G(<<E("A", "B"), E("B", "C")>>),
         G(<<E("A", "B"), E("B", "A")>>),
         G(<<E("A", "A")>>),
         G(<<E("A", "B"), E("B", "A"), E("A", "A")>>),
         G(<<E("A", "B"), E("A", "B"), E("A", "C")>>)}

HasCycle(graph_result, relationship_type) ==
    \E i, j \in DOMAIN graph_result.edges :
       /\ graph_result.edges[i].relationship_type = relationship_type
       /\ graph_result.edges[j].relationship_type = relationship_type
       /\ graph_result.edges[i].source_id = graph_result.edges[j].target_id
       /\ graph_result.edges[j].source_id = graph_result.edges[i].target_id

\* The call made by _calculate_function_depth / _calculate_class_hierarchy_depth
\* for one node: depth 0.
StartWalk ==
    /\ ~walk.made
    /\ \E relationship_type \in {"CALLS", "INHERITS_FROM"}, start \in {"A", "B"} :
          \E graph_result \in WalkGraphs(relationship_type) :
             walk' = [made |-> TRUE,
                      relationship_type |-> relationship_type,
                      graph_result |-> graph_result,
                      start |-> start,
                      stack |-> <<NewFrame(start, 0)>>,
                      done |-> FALSE,
                      result |-> 0]
    /\ UNCHANGED nonWalkVars

\* The head of the function: the depth test, the edge scan, the early return.
EnterCall ==
    /\ walk.made
    /\ ~walk.done
    /\ LET top == walk.stack[Len(walk.stack)]
           called == CalledList(top.id, walk.graph_result, walk.relationship_type)
       IN  /\ top.phase = "test"
           /\ IF top.current_depth > DepthCap
              THEN ReturnValue(top.current_depth)
              ELSE IF called = <<>>
                   THEN ReturnValue(top.current_depth)
                   ELSE walk' = [walk EXCEPT
                                   !.stack[Len(walk.stack)] =
                                       [top EXCEPT !.phase = "loop", !.called = called]]
    /\ UNCHANGED nonWalkVars

\* One turn of the for loop: the recursive call on the next target, or the
\* return of max_depth when the loop is over.
LoopStep ==
    /\ walk.made
    /\ ~walk.done
    /\ LET top == walk.stack[Len(walk.stack)]
       IN  /\ top.phase = "loop"
           /\ IF top.called = <<>>
              THEN ReturnValue(top.max_depth)
              ELSE walk' = [walk EXCEPT
                              !.stack = Append(
                                  [walk.stack EXCEPT
                                      ![Len(walk.stack)].called = RemainingCalls(top.called)],
                                  NewFrame(Head(top.called), top.current_depth + 1))]
    /\ UNCHANGED nonWalkVars

InitDepth ==
    /\ InitGraph
    /\ FusionIdle
    /\ Bm25Idle
    /\ ExtractIdle
    /\ RestIdle

NextDepth ==
    \/ StartWalk
    \/ EnterCall
    \/ LoopStep

SpecDepth == InitDepth /\ [][NextDepth]_vars

\* A started traversal keeps running: the interpreter executes the call to
\* its end.
SpecDepthLive == SpecDepth /\ WF_vars(EnterCall \/ LoopStep)

(***************************************************************************)
(* Traversal claims.                                                       *)
(***************************************************************************)

WalkDone == walk.made /\ walk.done

\* C12: the call-depth and inheritance-depth traversals terminate on every
\* neighborhood graph, cyclic ones included: a started traversal returns.
C12_TraversalTerminates == walk.made ~> WalkDone

\* C12, witness: a traversal of a graph with a cycle has returned, with the
\* value the recursion computes.
C12_Witness ==
    /\ WalkDone
    /\ HasCycle(walk.graph_result, walk.relationship_type)
    /\ walk.result = RecursiveDepth(walk.start, walk.graph_result, walk.relationship_type, 0)

\* C13: the depth a traversal returns never exceeds the cap of 10.
C13_DepthWithinCap == WalkDone => walk.result <= DepthCap

(***************************************************************************)
(* Conflict resolver: src/src/search/rerank_service.py, class              *)
(* ConflictResolutionReranker.  A result is a record of its chunk id, its  *)
(* score and its rank in the list it comes from.                           *)
(***************************************************************************)

\* results[:5]
TopFive(results) == SubSeq(results, 1, Min2(5, Len(results)))

ResultIds(results) == {results[i].chunk_id : i \in DOMAIN results}

\* next((r.rank for r in results if r.chunk.id == chunk_id), len(results))
RankIn(results, chunk_id) ==
    LET hits == {i \in DOMAIN results : results[i].chunk_id = chunk_id}
    IN  IF hits = {}
        THEN Len(results)
        ELSE results[CHOOSE i \in hits : \A j \in hits : i <= j].rank

_identify_conflicts(vector_results, bm25_results) ==
    LET vector_top == ResultIds(TopFive(vector_results))
        bm25_top == ResultIds(TopFive(bm25_results))
        vector_high == SelectSeq(TopFive(vector_results), LAMBDA r : r.chunk_id \notin bm25_top)
        bm25_high == SelectSeq(TopFive(bm25_results), LAMBDA r : r.chunk_id \notin vector_top)
    IN  [i \in DOMAIN vector_high |->
            [chunk_id |-> vector_high[i].chunk_id,
             type |-> "vector_high_bm25_low",
             vector_rank |-> vector_high[i].rank,
             bm25_rank |-> RankIn(bm25_results, vector_high[i].chunk_id)]]
        \o
        [i \in DOMAIN bm25_high |->
            [chunk_id |-> bm25_high[i].chunk_id,
             type |-> "bm25_high_vector_low",
             bm25_rank |-> bm25_high[i].rank,
             vector_rank |-> RankIn(vector_results, bm25_high[i].chunk_id)]]

\* 'class' is listed twice in the source.
keyword_indicators ==
    << <<"f", "u", "n", "c", "t", "i", "o", "n">>,
       <<"c", "l", "a", "s", "s">>,
       <<"m", "e", "t", "h", "o", "d">>,
       <<"v", "a", "r", "i", "a", "b", "l", "e">>,
       <<"i", "m", "p", "o", "r", "t">>,
       <<"d", "e", "f">>,
       <<"c", "l", "a", "s", "s">> >>

semantic_indicators ==
    << <<"h", "o", "w", " ", "t", "o">>,
       <<"w", "h", "a", "t", " ", "i", "s">>,
       <<"e", "x", "p", "l", "a", "i", "n">>,
       <<"i", "m", "p", "l", "e", "m", "e", "n", "t">>,
       <<"a", "l", "g", "o", "r", "i", "t", "h", "m">>,
       <<"p", "a", "t", "t", "e", "r", "n">> >>

_analyze_query_type(query) ==
    LET query_lower == LowerText(query)
        keyword_count == Cardinality({i \in DOMAIN keyword_indicators :
                                         InText(keyword_indicators[i], query_lower)})
        semantic_count == Cardinality({i \in DOMAIN semantic_indicators :
                                          InText(semantic_indicators[i], query_lower)})
    IN  IF semantic_count > keyword_count
        THEN "semantic"
        ELSE IF keyword_count > semantic_count
             THEN "keyword"
             ELSE "mixed"

\* Mutant of ResolutionScore: the query type is ignored.
ResolutionScoreMixed(query_type, conflict_type) == Rat(8, 10)

\* The body of the loop of _resolve_conflicts: the resolution score of one
\* conflict.
ResolutionScore(query_type, conflict_type) ==
    IF query_type = "semantic"
    THEN IF conflict_type = "vector_high_bm25_low" THEN RatOne ELSE Rat(7, 10)
    ELSE IF query_type = "keyword"
         THEN IF conflict_type = "bm25_high_vector_low" THEN RatOne ELSE Rat(7, 10)
         ELSE Rat(8, 10)

\* _resolve_conflicts: the dict chunk id -> resolution score; a later
\* conflict of the same chunk id overwrites an earlier one.
_resolve_conflicts(conflicts, query) ==
    [id \in {conflicts[i].chunk_id : i \in DOMAIN conflicts} |->
        LET i == CHOOSE j \in DOMAIN conflicts :
                    /\ conflicts[j].chunk_id = id
                    /\ \A k \in DOMAIN conflicts : conflicts[k].chunk_id = id => k <= j
        IN  ResolutionScore(_analyze_query_type(query), conflicts[i].type)]

\* The keys of all_results / combined_dict in insertion order: the first
\* occurrence of each chunk id in vector_results + bm25_results.
InsertionOrder(results) ==
    LET first == SelectSeq([i \in DOMAIN results |-> i],
                           LAMBDA i : \A j \in 1..(i - 1) :
                                         results[j].chunk_id # results[i].chunk_id)
    IN  [p \in DOMAIN first |-> results[first[p]].chunk_id]

\* sum(r.score for r in results) / len(results) over the results of one id.
AverageScore(results, chunk_id) ==
    LET hits == {i \in DOMAIN results : results[i].chunk_id = chunk_id}
    IN  RatDiv(RatSum(hits, [i \in hits |-> results[i].score]), RatInt(Cardinality(hits)))

\* The sort by score (descending, stable), the ranks, and the [:top_k] slice.
SortRankCut(unsorted, top_k) ==
    LET ranked == [p \in DOMAIN unsorted |->
                      LET i == CHOOSE j \in DOMAIN unsorted :
                                  RerankPosition(unsorted, j) = p
                      IN  [chunk_id |-> unsorted[i].chunk_id,
                           score |-> unsorted[i].score,
                           search_type |-> unsorted[i].search_type,
                           resolved |-> unsorted[i].resolved,
                           rank |-> p]]
    IN  [ranked |-> ranked, returned |-> SubSeq(ranked, 1, Min2(top_k, Len(ranked)))]

_combine_without_conflicts(vector_results, bm25_results, top_k) ==
    LET both == vector_results \o bm25_results
        keys == InsertionOrder(both)
    IN  SortRankCut([p \in DOMAIN keys |->
                        [chunk_id |-> keys[p],
                         score |-> AverageScore(both, keys[p]),
                         search_type |-> "combined",
                         resolved |-> FALSE]],
                    top_k)

\* ConflictResolutionReranker._combine_results.
ResolverCombineResults(vector_results, bm25_results, resolved_scores, top_k) ==
    LET both == vector_results \o bm25_results
        keys == InsertionOrder(both)
    IN  SortRankCut([p \in DOMAIN keys |->
                        [chunk_id |-> keys[p],
                         score |-> IF keys[p] \in DOMAIN resolved_scores
                                   THEN RatMul(AverageScore(both, keys[p]), resolved_scores[keys[p]])
                                   ELSE AverageScore(both, keys[p]),
                         search_type |-> "resolved",
                         resolved |-> keys[p] \in DOMAIN resolved_scores]],
                    top_k)

resolve_conflicts(vector_results, bm25_results, query, top_k) ==
    LET conflicts == _identify_conflicts(vector_results, bm25_results)
    IN  IF conflicts = <<>>
        THEN _combine_without_conflicts(vector_results, bm25_results, top_k)
        ELSE ResolverCombineResults(vector_results, bm25_results,
                                    _resolve_conflicts(conflicts, query), top_k)

(***************************************************************************)
(* Conflict resolver inputs and action.                                    *)
(***************************************************************************)

QueryCache == <<"h", "o", "w", " ", "t", "o", " ", "i", "m", "p", "l", "e", "m", "e", "n", "t", " ", "a", " ", "c", "a", "c", "h", "e">>

\* The queries: "how to implement a cache" (semantic), "def foo" (keyword),
\* "Explain class" (one semantic phrase, 'class' counted twice: keyword),
\* "explain def" (one of each: mixed), "cache" (none: mixed).
ConflictQueries ==
    {QueryCache,
     <<"d", "e", "f", " ", "f", "o", "o">>,
     <<"E", "x", "p", "l", "a", "i", "n", " ", "c", "l", "a", "s", "s">>,
     <<"e", "x", "p", "l", "a", "i", "n", " ", "d", "e", "f">>,
     <<"c", "a", "c", "h", "e">>}

\* A ranked list over the given chunk ids: ranks 1, 2, ... and strictly
\* decreasing positive scores (n+1-i)/(n+shift).
RankedList(ids, shift) ==
    [i \in DOMAIN ids |->
        [chunk_id |-> ids[i], rank |-> i, score |-> Rat(Len(ids) + 1 - i, Len(ids) + shift)]]

ConflictVectorLists ==
    {RankedList(<<>>, 1),
     RankedList(<<"c1", "c2">>, 1),
     RankedList(<<"c1", "c2", "c3", "c4", "c5", "c6">>, 1),
     RankedList(<<"c7", "c1", "c2", "c3", "c4", "c5">>, 1),
     RankedList(<<"c6", "c5", "c4", "c3", "c2", "c1", "c8">>, 1)}

ConflictBm25Lists ==
    {RankedList(<<>>, 2),
     RankedList(<<"c1", "c2">>, 2),
     RankedList(<<"c2", "c1", "c8">>, 2),
     RankedList(<<"c6", "c5", "c4", "c3", "c2", "c1">>, 2),
     RankedList(<<"c1", "c2", "c3", "c4", "c5", "c7", "c6">>, 2)}

ResolveConflicts ==
    /\ ~conflict_call.made
    /\ \E vector_results \in ConflictVectorLists, bm25_results \in ConflictBm25Lists,
          query \in ConflictQueries, top_k \in 1..MaxTopK :
          LET out == resolve_conflicts(vector_results, bm25_results, query, top_k)
          IN  conflict_call' = [made |-> TRUE,
                                vector_results |-> vector_results,
                                bm25_results |-> bm25_results,
                                query |-> query,
                                top_k |-> top_k,
                                ranked |-> out.ranked,
                                returned |-> out.returned]
    /\ UNCHANGED nonConflictVars

InitConflict ==
    /\ InitGraph
    /\ FusionIdle
    /\ Bm25Idle
    /\ ExtractIdle
    /\ RestIdle

NextConflict == ResolveConflicts

SpecConflict == InitConflict /\ [][NextConflict]_vars

(***************************************************************************)
(* Conflict resolver claim.                                                *)
(***************************************************************************)

\* The chunk ids in the top 5 of the first list and not in the top 5 of the
\* second.
OnlyTopOf(first, second) == ResultIds(TopFive(first)) \ ResultIds(TopFive(second))

\* The multiplier the rule of section 4.5 gives: 1.0 when the favoring ranker
\* matches the query type, 0.7 when it is the other one, 0.8 for mixed.
ExpectedMultiplier(query_type, favoring) ==
    CASE query_type = "mixed" -> Rat(4, 5)
      [] query_type = "semantic" /\ favoring = "vector" -> RatOne
      [] query_type = "keyword" /\ favoring = "bm25" -> RatOne
      [] OTHER -> Rat(7, 10)

\* The final score of a chunk id is its average raw score times a multiplier.
ScoredWith(call, chunk_id, multiplier) ==
    \E p \in DOMAIN call.ranked :
       /\ call.ranked[p].chunk_id = chunk_id
       /\ call.ranked[p].resolved
       /\ call.ranked[p].score =
              RatMul(AverageScore(call.vector_results \o call.bm25_results, chunk_id), multiplier)
       /\ p <= call.top_k => call.returned[p] = call.ranked[p]

\* C14: a candidate in the top 5 of exactly one base ranking is scored with
\* multiplier 1.0 when the favoring ranker matches the query type, 0.7 in
\* the opposite case and 0.8 for a mixed query; for "how to implement a
\* cache" a vector-only top candidate gets 1.0 and a BM25-only one 0.7.
C14_ResolutionMultiplier ==
    conflict_call.made =>
        LET query_type == _analyze_query_type(conflict_call.query)
            vector_only == OnlyTopOf(conflict_call.vector_results, conflict_call.bm25_results)
            bm25_only == OnlyTopOf(conflict_call.bm25_results, conflict_call.vector_results)
        IN  /\ \A id \in vector_only :
                  ScoredWith(conflict_call, id, ExpectedMultiplier(query_type, "vector"))
            /\ \A id \in bm25_only :
                  ScoredWith(conflict_call, id, ExpectedMultiplier(query_type, "bm25"))
            /\ conflict_call.query = QueryCache =>
                  /\ \A id \in vector_only : ScoredWith(conflict_call, id, RatOne)
                  /\ \A id \in bm25_only : ScoredWith(conflict_call, id, Rat(7, 10))

\* C14, witness: the query is "how to implement a cache", one candidate is in
\* the vector top 5 only (it is sixth in the BM25 list) and another in the
\* BM25 top 5 only.
C14_Witness ==
    /\ conflict_call.made
    /\ conflict_call.query = QueryCache
    /\ \E id \in OnlyTopOf(conflict_call.vector_results, conflict_call.bm25_results) :
          /\ id \in ResultIds(conflict_call.bm25_results)
          /\ ScoredWith(conflict_call, id, RatOne)
    /\ \E id \in OnlyTopOf(conflict_call.bm25_results, conflict_call.vector_results) :
          ScoredWith(conflict_call, id, Rat(7, 10))

(***************************************************************************)
(* Extractor error policy.                                                 *)
(***************************************************************************)

SupportedSuffixes == {".py", ".ts", ".tsx"}

get_vocabulary_size(corpus) ==
    Cardinality(UNION {Range(corpus[d]) : d \in DOMAIN corpus})

\* BM25Search.get_stats(); k1 and b are the constructor's values.
get_stats(corpus) ==
    [indexed_documents |-> Len(corpus),
     vocabulary_size |-> get_vocabulary_size(corpus)]

\* C20: after any sequence of index_chunks calls the index reflects only the
\* chunk list of the last call: get_stats reports that list's document count
\* and a search returns only documents of that list.
C20_IndexReflectsLastCall ==
    index_call.made =>
        /\ get_stats(bm25_corpus).indexed_documents = Len(index_call.chunk_list)
        /\ bm25_call.made =>
              \A i \in DOMAIN bm25_call.results :
                 \E d \in DOMAIN index_call.chunk_list :
                    bm25_call.results[i].chunk.id = index_call.chunk_list[d].id

(***************************************************************************)
(* Query path: src/src/search/hybrid_search.py, HybridSearch.search.       *)
(* The embedding service, the vector store, the keyword ranker and the     *)
(* graph store are collaborators: each call returns a value or raises.     *)
(* A result is represented as in score fusion, by its chunk id and score.  *)
(***************************************************************************)

Returns(value) == [raised |-> FALSE, value |-> value]

Raises == [raised |-> TRUE, value |-> <<>>]

\* Mutant of _vector_search: the error of the embedding service or of the
\* vector store is not caught.
VectorSearchUncaught(embedding, similar) ==
    IF embedding.raised \/ similar.raised THEN Raises ELSE Returns(similar.value)

\* _vector_search: embed_query, then search_similar, inside try/except.
_vector_search(embedding, similar) ==
    IF embedding.raised \/ similar.raised THEN Returns(<<>>) ELSE Returns(similar.value)

\* _bm25_search: BM25Search.search and the content fill from chunk_cache,
\* inside try/except.
_bm25_search(keyword) ==
    IF keyword.raised THEN Returns(<<>>) ELSE Returns(keyword.value)

\* The graph_context entry of one result.
GraphContext(graph_result) ==
    LET related_functions ==
            SelectSeq(graph_result.nodes, LAMBDA node : node.type = "Function")
        counts == [related_nodes |-> Len(graph_result.nodes),
                   related_edges |-> Len(graph_result.edges)]
    IN  IF related_functions = <<>>
        THEN counts
        ELSE [related_nodes |-> counts.related_nodes,
              related_edges |-> counts.related_edges,
              related_functions |->
                  [i \in DOMAIN related_functions |->
                      [name |-> related_functions[i].id,
                       file_path |-> related_functions[i].file_path]]]

\* result.metadata["graph_context"] = ...
SetGraphContext(result, context) ==
    [chunk_id |-> result.chunk_id,
     score |-> result.score,
     rank |-> result.rank,
     search_type |-> result.search_type,
     metadata |-> [vector_score |-> result.metadata.vector_score,
                   bm25_score |-> result.metadata.bm25_score,
                   search_types |-> result.metadata.search_types,
                   graph_context |-> context]]

\* _enhance_with_graph: one try around the loop; related[i] is what
\* find_related_chunks does for the i-th result. The results before the first
\* failure carry their graph context, the loop ends at the failure, and the
\* same list is returned either way.
_enhance_with_graph(results, related) ==
    LET failures == {i \in DOMAIN results : related[i].raised}
        reached(i) == \A j \in failures : i < j
    IN  Returns([i \in DOMAIN results |->
                    IF reached(i)
                    THEN SetGraphContext(results[i], GraphContext(related[i].value))
                    ELSE results[i]])

\* HybridSearch.search(query, top_k, vector_weight, bm25_weight, use_graph).
search(top_k, vector_weight, bm25_weight, use_graph, embedding, similar, keyword, related) ==
    LET vector_results == _vector_search(embedding, similar)
        bm25_results == _bm25_search(keyword)
    IN  IF vector_results.raised \/ bm25_results.raised
        THEN Raises
        ELSE LET combined_results == _combine_results(vector_results.value, bm25_results.value,
                                                      vector_weight, bm25_weight, top_k)
             IN  IF use_graph /\ combined_results # <<>>
                 THEN _enhance_with_graph(combined_results, related)
                 ELSE Returns(combined_results)

(***************************************************************************)
(* Query path inputs and action.                                           *)
(***************************************************************************)

SearchVectorLists ==
    {<<>>,
     <<[chunk_id |-> "A", score |-> 2], [chunk_id |-> "B", score |-> 1]>>,
     <<[chunk_id |-> "C", score |-> 1]>>}

SearchBm25Lists ==
    {<<>>,
     <<[chunk_id |-> "B", score |-> 2], [chunk_id |-> "D", score |-> 1]>>,
     <<[chunk_id |-> "D", score |-> 1]>>}

\* What the graph store holds around a chunk: a function and a class around
\* A, nothing around the others.
RelatedChunks(chunk_id) ==
    IF chunk_id = "A"
    THEN [nodes |-> <<[id |-> "foo", type |-> "Function", file_path |-> "a.py"],
                      [id |-> "Foo", type |-> "Class", file_path |-> "a.py"]>>,
          edges |-> <<GraphEdge("Foo", "foo", "CONTAINS")>>]
    ELSE [nodes |-> <<>>, edges |-> <<>>]

\* The ids the fusion of two lists can return, in any order.
FusedIds(vector_results, bm25_results) ==
    {vector_results[i].chunk_id : i \in DOMAIN vector_results}
    \cup {bm25_results[i].chunk_id : i \in DOMAIN bm25_results}

\* One search call with the default weights: every collaborator answers or
\* raises; the graph store raises for the chunk ids in graph_down.
HybridSearchCall ==
    /\ ~search_call.made
    /\ \E top_k \in 1..MaxTopK, use_graph \in BOOLEAN,
          embedding \in {Returns(<<>>), Raises},
          similar \in {Returns(v) : v \in SearchVectorLists} \cup {Raises},
          keyword \in {Returns(b) : b \in SearchBm25Lists} \cup {Raises},
          graph_down \in {{}, {"A"}, {"B"}, {"D"}} :
          LET vector_weight == Rat(6, 10)
              bm25_weight == Rat(4, 10)
              fused == _combine_results(_vector_search(embedding, similar).value,
                                        _bm25_search(keyword).value,
                                        vector_weight, bm25_weight, top_k)
              related == [i \in DOMAIN fused |->
                             IF fused[i].chunk_id \in graph_down
                             THEN Raises
                             ELSE Returns(RelatedChunks(fused[i].chunk_id))]
              out == search(top_k, vector_weight, bm25_weight, use_graph,
                            embedding, similar, keyword, related)
          IN  /\ embedding.raised => similar = Raises
              /\ search_call' = [made |-> TRUE,
                                 top_k |-> top_k,
                                 use_graph |-> use_graph,
                                 embedding |-> embedding,
                                 similar |-> similar,
                                 keyword |-> keyword,
                                 graph_down |-> graph_down,
                                 raised |-> out.raised,
                                 returned |-> out.value]
    /\ UNCHANGED query_runs
    /\ UNCHANGED nonSearchVars

InitSearch ==
    /\ InitGraph
    /\ FusionIdle
    /\ Bm25Idle
    /\ ExtractIdle
    /\ RestIdle

NextSearch == HybridSearchCall

SpecSearch == InitSearch /\ [][NextSearch]_vars

(***************************************************************************)
(* Query path claim.                                                       *)
(***************************************************************************)

\* What a source contributes: its list, or the empty list when it raised.
Contribution(answer) == IF answer.raised THEN <<>> ELSE answer.value

VectorFailed(call) == call.embedding.raised \/ call.similar.raised

\* The fusion of the lists of the sources that answered.
FusedOfRemaining(call) ==
    _combine_results(IF VectorFailed(call) THEN <<>> ELSE call.similar.value,
                     Contribution(call.keyword),
                     Rat(6, 10), Rat(4, 10), call.top_k)

HasGraphContext(result) == "graph_context" \in DOMAIN result.metadata

\* C18: search returns a list and raises nothing whatever collaborator
\* fails: a failed vector or BM25 source counts as the empty list, the
\* remaining lists are fused and returned with the same ids, scores and
\* ranks, and a result whose graph query failed carries no graph context.
C18_SearchNeverRaises ==
    search_call.made =>
        LET fused == FusedOfRemaining(search_call)
        IN  /\ ~search_call.raised
            /\ Len(search_call.returned) = Len(fused)
            /\ \A p \in DOMAIN fused :
                  /\ search_call.returned[p].chunk_id = fused[p].chunk_id
                  /\ search_call.returned[p].score = fused[p].score
                  /\ search_call.returned[p].rank = fused[p].rank
                  /\ search_call.returned[p].metadata.search_types = fused[p].metadata.search_types
                  /\ fused[p].chunk_id \in search_call.graph_down =>
                        ~HasGraphContext(search_call.returned[p])
                  /\ ~search_call.use_graph => ~HasGraphContext(search_call.returned[p])

\* C18, witness: the vector source failed, the BM25 source answered, the graph
\* store failed on a returned result, and the BM25 results came back.
C18_Witness ==
    /\ search_call.made
    /\ VectorFailed(search_call)
    /\ ~search_call.keyword.raised
    /\ search_call.use_graph
    /\ Len(search_call.returned) = 2
    /\ \E p \in DOMAIN search_call.returned :
          /\ search_call.returned[p].chunk_id \in search_call.graph_down
          /\ ~HasGraphContext(search_call.returned[p])
    /\ \E p \in DOMAIN search_call.returned : HasGraphContext(search_call.returned[p])

(***************************************************************************)
(* A keyword index build beside a keyword query.                           *)
(* BM25Search holds no lock and index_chunks writes self.corpus,           *)
(* self.chunk_metadata and self.bm25 one after the other, so a search      *)
(* running beside it reads whatever is written at that moment.  The build  *)
(* is cut into its reset, one step per chunk and the BM25Okapi call; the   *)
(* search into the scoring and one step per turn of its result loop.       *)
(* Coarser steps than the interpreter's only remove interleavings.         *)
(***************************************************************************)

RaceChunk(id, i, content) ==
    [id |-> id, file_path |-> "a.py", content |-> content,
     start_line |-> i, end_line |-> i + Len(content) - 1, language |-> "python",
     chunk_type |-> "function", metadata |-> EmptyDict]

\* The chunk lists indexed before the build starts.
RaceOldLists ==
    {<<RaceChunk("a1", 1, HelloContent), RaceChunk("a2", 1, MainContent),
       RaceChunk("a3", 1, ShortContent)>>,
     <<RaceChunk("a1", 1, MainContent), RaceChunk("a2", 1, ShortContent),
       RaceChunk("a3", 1, ShortContent)>>}

\* The chunk lists of the build: a full corpus, a shorter one, and one whose
\* chunks all tokenize to nothing.
RaceNewLists ==
    {<<RaceChunk("b1", 1, ShortContent), RaceChunk("b2", 1, HelloContent),
       RaceChunk("b3", 1, MainContent)>>,
     <<RaceChunk("b1", 1, MainContent)>>,
     <<RaceChunk("b1", 1, ShortContent)>>}

\* index_chunks(chunks) is called with a non-empty list.
IndexStart ==
    /\ bm25_build.pc = "idle"
    /\ \E chunk_list \in RaceNewLists :
          bm25_build' = [bm25_build EXCEPT !.pc = "reset", !.chunk_list = chunk_list]
    /\ UNCHANGED <<bm25Vars, bm25_query, nonRaceVars>>

\* self.corpus = []; self.chunk_metadata = []
IndexReset ==
    /\ bm25_build.pc = "reset"
    /\ bm25_corpus' = <<>>
    /\ chunk_metadata' = <<>>
    /\ bm25_build' = [bm25_build EXCEPT !.pc = "append"]
    /\ UNCHANGED <<bm25_index, bm25_call, index_call, bm25_query, nonRaceVars>>

\* One turn of the for loop: corpus.append(tokens); chunk_metadata.append(...)
IndexAppend ==
    /\ bm25_build.pc = "append"
    /\ LET chunk == bm25_build.chunk_list[Len(bm25_corpus) + 1]
       IN  /\ bm25_corpus' = Append(bm25_corpus, _preprocess_text(chunk.content))
           /\ chunk_metadata' = Append(chunk_metadata, ChunkMetadata(chunk))
           /\ bm25_build' = [bm25_build EXCEPT
                               !.pc = IF Len(bm25_corpus) + 1 = Len(bm25_build.chunk_list)
                                      THEN "build" ELSE "append"]
    /\ UNCHANGED <<bm25_index, bm25_call, index_call, bm25_query, nonRaceVars>>

\* self.bm25 = BM25Okapi(self.corpus, ...): the assignment, or the
\* ZeroDivisionError that leaves self.bm25 as it was. `indexed` remembers the
\* chunk list the scorer was built from.
IndexBuild ==
    /\ bm25_build.pc = "build"
    /\ IF RaisesZeroDivision(bm25_corpus)
       THEN /\ bm25_build' = [bm25_build EXCEPT !.pc = "raised"]
            /\ UNCHANGED bm25_index
       ELSE /\ bm25_index' = BM25Okapi(bm25_corpus)
            /\ bm25_build' = [bm25_build EXCEPT !.pc = "done",
                                                !.indexed = bm25_build.chunk_list]
    /\ UNCHANGED <<bm25_corpus, chunk_metadata, bm25_call, index_call, bm25_query, nonRaceVars>>

\* search(query, top_k) up to the argsort: it reads self.bm25.
QueryScore ==
    /\ bm25_query.pc = "idle"
    /\ \E query \in Queries, top_k \in 1..MaxTopK :
          IF ~bm25_index.built
          THEN bm25_query' = [pc |-> "done", query |-> query, bm25_scores |-> <<>>,
                              top_indices |-> <<>>, scored |-> <<>>, taken |-> <<>>,
                              results |-> <<>>, raised |-> "", rank |-> 1]
          ELSE LET bm25_scores == get_scores(bm25_index, _preprocess_text(query))
               IN  \E top_indices \in TopIndices(bm25_scores, top_k) :
                      bm25_query' = [pc |-> "loop", query |-> query,
                                     bm25_scores |-> bm25_scores,
                                     top_indices |-> top_indices,
                                     scored |-> bm25_build.indexed,
                                     taken |-> <<>>, results |-> <<>>,
                                     raised |-> "", rank |-> 1]
    /\ UNCHANGED <<bm25Vars, bm25_build, nonRaceVars>>

\* One turn of the result loop: it reads self.chunk_metadata[idx] for a
\* document with a positive score; `taken` remembers the idx of each result.
QueryCollect ==
    /\ bm25_query.pc = "loop"
    /\ IF bm25_query.rank > Len(bm25_query.top_indices)
       THEN bm25_query' = [bm25_query EXCEPT !.pc = "done"]
       ELSE LET d == bm25_query.top_indices[bm25_query.rank]
            IN  IF ValueSign(bm25_query.bm25_scores[d]) > 0
                THEN IF d \in DOMAIN chunk_metadata
                     THEN bm25_query' =
                              [bm25_query EXCEPT
                                  !.results = Append(@, Bm25Result(chunk_metadata,
                                                                   bm25_query.bm25_scores,
                                                                   d, bm25_query.rank)),
                                  !.taken = Append(@, d),
                                  !.rank = @ + 1]
                     ELSE bm25_query' = [bm25_query EXCEPT !.pc = "done",
                                                           !.raised = "IndexError"]
                ELSE bm25_query' = [bm25_query EXCEPT !.rank = @ + 1]
    /\ UNCHANGED <<bm25Vars, bm25_build, nonRaceVars>>

\* The keyword ranker after __init__ or after index_chunks on an earlier list;
\* no build and no query running.
InitRace ==
    /\ \E old \in RaceOldLists \cup {<<>>} :
          LET corpus == [i \in DOMAIN old |-> _preprocess_text(old[i].content)]
          IN  /\ bm25_corpus = corpus
              /\ chunk_metadata = [i \in DOMAIN old |-> ChunkMetadata(old[i])]
              /\ bm25_index = IF old = <<>> THEN NoIndex ELSE BM25Okapi(corpus)
              /\ bm25_build = [pc |-> "idle", chunk_list |-> <<>>, indexed |-> old]
    /\ bm25_call = NoSearch
    /\ index_call = NotCalled
    /\ bm25_query = [pc |-> "idle"]
    /\ InitGraph
    /\ FusionIdle
    /\ ExtractIdle
    /\ RerankIdle
    /\ WalkIdle
    /\ ConflictIdle
    /\ SearchIdle

NextRace ==
    \/ IndexStart
    \/ IndexReset
    \/ IndexAppend
    \/ IndexBuild
    \/ QueryScore
    \/ QueryCollect

SpecRace == InitRace /\ [][NextRace]_vars

(***************************************************************************)
(* Concurrency claim.                                                      *)
(***************************************************************************)

\* C19: a query that runs beside index_chunks never observes a partially
\* written index: it does not fail, and every result it returns carries the
\* metadata of the document that was scored.
C19_NoPartialIndexObserved ==
    bm25_query.pc \in {"loop", "done"} =>
        /\ bm25_query.raised = ""
        /\ \A i \in DOMAIN bm25_query.results :
              /\ bm25_query.taken[i] \in DOMAIN bm25_query.scored
              /\ bm25_query.results[i].chunk.id = bm25_query.scored[bm25_query.taken[i]].id

(***************************************************************************)
(* Keyword ranker before an index exists.                                  *)
(***************************************************************************)
\* C21: a search made while no index has been built (self.bm25 is None: no
\* index_chunks call yet, only calls with an empty list, or a first build
\* that raised) returns the empty list and raises nothing, for every query
\* and top_k.
C21_EmptyBeforeIndex ==
    (bm25_call.made /\ ~bm25_index.built) =>
        /\ bm25_call.results = <<>>
        /\ bm25_call.raised = ""

\* C21, witness: a search for hello with the largest top_k, made with no
\* index_chunks call before it, returned the empty list.
C21_Witness ==
    /\ bm25_call.made
    /\ ~bm25_index.built
    /\ ~index_call.made
    /\ bm25_call.query = QueryHello
    /\ bm25_call.top_k = MaxTopK
    /\ bm25_call.results = <<>>

(***************************************************************************)
(* Extractor: the CALLS edges.                                             *)
(***************************************************************************)
\* The names of the functions the file declares.
DeclaredFunctions(file) == {file.functions[k].name : k \in DOMAIN file.functions}

\* The declared functions whose line span holds the line.
EnclosingFunctions(file, line) ==
    {file.functions[k].name :
        k \in {j \in DOMAIN file.functions :
                  /\ file.functions[j].start_line <= line
                  /\ line <= file.functions[j].end_line}}

\* C22: every CALLS edge returned comes from a captured call whose name is a
\* function declared in the file and whose line is inside a declared
\* function: its target is the Function node of the called name and its
\* source the Function node of an enclosing function. So a call of a name
\* that is only a class or an imported module, and a call at file scope,
\* leave no edge.
C22_CallsEdgesBetweenLocalFunctions ==
    extract_call.made =>
        \A i \in CallsEdges :
           \E c \in Range(extract_call.file.calls) :
              /\ c.name \in DeclaredFunctions(extract_call.file)
              /\ extract_call.returned.relationships[i].target_id
                    \in ReturnedIds("Function", c.name)
              /\ \E f \in EnclosingFunctions(extract_call.file, c.line) :
                    extract_call.returned.relationships[i].source_id
                        \in ReturnedIds("Function", f)

(***************************************************************************)
(* Conflict resolver: the query classifier.                                *)
(***************************************************************************)
\* The number of distinct phrases of an indicator list found in the
\* lower-cased query.
DistinctMatches(indicators, query) ==
    Cardinality({phrase \in Range(indicators) : InText(phrase, LowerText(query))})

\* C23: the classifier answers by comparing the numbers of distinct semantic
\* and distinct keyword indicator phrases found in the query: mixed when
\* they are equal, semantic when more semantic phrases match, keyword when
\* more keyword phrases match.
C23_ClassifiesByDistinctMatches ==
    conflict_call.made =>
        LET semantic_matches == DistinctMatches(semantic_indicators, conflict_call.query)
            keyword_matches == DistinctMatches(keyword_indicators, conflict_call.query)
        IN  _analyze_query_type(conflict_call.query) =
                IF semantic_matches > keyword_matches THEN "semantic"
                ELSE IF keyword_matches > semantic_matches THEN "keyword"
                ELSE "mixed"

(***************************************************************************)
(* The search coroutines of one query. HybridSearch.search suspends once,  *)
(* at `await self.embedding_service.embed_query(query)` inside             *)
(* _vector_search; search_similar, the BM25 search, _combine_results and   *)
(* the return run without another suspension (use_graph is False here).    *)
(* So in every run the vector search completes before the BM25 search      *)
(* starts, and runs of different coroutines interleave only at that await. *)
(* fusion_args holds what the two base searches answer for the query, the  *)
(* weights and top_k.                                                      *)
(***************************************************************************)

MaxRuns == 2

QueryRuns == 1..MaxRuns

RunIdle == [pc |-> "idle", started |-> 0, finished |-> 0, completed |-> <<>>, returned |-> <<>>]

\* Lists with equal scores inside a list (A and B, B and D) and across lists.
QueryVectorLists ==
    {<<>>,
     <<[chunk_id |-> "A", score |-> 1]>>,
     <<[chunk_id |-> "A", score |-> 2], [chunk_id |-> "B", score |-> 1]>>,
     <<[chunk_id |-> "B", score |-> 1], [chunk_id |-> "A", score |-> 1]>>,
     <<[chunk_id |-> "A", score |-> 2], [chunk_id |-> "B", score |-> 1],
       [chunk_id |-> "C", score |-> 0]>>,
     <<[chunk_id |-> "C", score |-> 0], [chunk_id |-> "B", score |-> 2],
       [chunk_id |-> "A", score |-> 1]>>}

QueryBm25Lists ==
    {<<>>,
     <<[chunk_id |-> "D", score |-> 1]>>,
     <<[chunk_id |-> "B", score |-> 2], [chunk_id |-> "D", score |-> 1]>>,
     <<[chunk_id |-> "D", score |-> 2], [chunk_id |-> "B", score |-> 1]>>,
     <<[chunk_id |-> "D", score |-> 1], [chunk_id |-> "B", score |-> 1]>>}

QueryWeightPairs == WeightPairs \cup {<<Rat(1, 2), Rat(1, 2)>>}

QueryInputs ==
    {[vector_results |-> v, bm25_results |-> b, vector_weight |-> w[1],
      bm25_weight |-> w[2], top_k |-> k] :
        v \in QueryVectorLists, b \in QueryBm25Lists, w \in QueryWeightPairs,
        k \in 1..MaxTopK}

\* search(...) is called: the coroutine runs up to the await of embed_query.
SearchStart(r) ==
    /\ query_runs[r].pc = "idle"
    /\ query_runs' =
           [query_runs EXCEPT
               ![r].pc = "embedding",
               ![r].started = 1 + Cardinality({q \in QueryRuns : query_runs[q].pc # "idle"})]
    /\ UNCHANGED search_call
    /\ UNCHANGED nonSearchVars

\* The embedding arrives: the rest of search runs to its return.
SearchResume(r) ==
    /\ query_runs[r].pc = "embedding"
    /\ query_runs' =
           [query_runs EXCEPT
               ![r].pc = "done",
               ![r].finished = 1 + Cardinality({q \in QueryRuns : query_runs[q].pc = "done"}),
               ![r].completed = <<"vector", "bm25">>,
               ![r].returned = search(fusion_args.top_k, fusion_args.vector_weight,
                                      fusion_args.bm25_weight, FALSE,
                                      Returns(<<>>), Returns(fusion_args.vector_results),
                                      Returns(fusion_args.bm25_results), <<>>).value]
    /\ UNCHANGED search_call
    /\ UNCHANGED nonSearchVars

InitQuery ==
    /\ InitGraph
    /\ Bm25Idle
    /\ ExtractIdle
    /\ RerankIdle
    /\ WalkIdle
    /\ ConflictIdle
    /\ RaceIdle
    /\ search_call = NotCalled
    /\ query_runs = [r \in QueryRuns |-> RunIdle]
    /\ fusion_args \in QueryInputs
    /\ combined_dict = <<>>
    /\ final_results = <<>>
    /\ mirror_dict = <<>>
    /\ fusion_calls = {}

NextQuery == \E r \in QueryRuns : SearchStart(r) \/ SearchResume(r)

SpecQuery == InitQuery /\ [][NextQuery]_vars

\* Where a chunk id is first met when the vector list is read before the
\* BM25 list.
FirstSeen(id) ==
    IF id \in ListIds(fusion_args.vector_results)
    THEN CHOOSE i \in DOMAIN fusion_args.vector_results :
             fusion_args.vector_results[i].chunk_id = id
    ELSE Len(fusion_args.vector_results)
         + (CHOOSE i \in DOMAIN fusion_args.bm25_results :
                fusion_args.bm25_results[i].chunk_id = id)

\* The place the inputs alone give a chunk id: after every id with a higher
\* combined score and after the ids with the same score that are met earlier.
ExpectedPlace(id) ==
    1 + Cardinality({other \in UnionIds :
                        \/ RatLess(ExpectedCombined(id), ExpectedCombined(other))
                        \/ /\ ExpectedCombined(other) = ExpectedCombined(id)
                           /\ FirstSeen(other) < FirstSeen(id)})

RunsDone == {r \in QueryRuns : query_runs[r].pc = "done"}

\* C24: for fixed base result lists, weights and top_k, the list a search
\* returns is fixed by those inputs alone: each returned id stands at the
\* place its combined score gives it, ids with equal scores in the order of
\* first appearance (vector list, then BM25 list), with that score and that
\* rank; every run returns the same list however the runs interleave, and in
\* each run the base searches complete in the same order.
C24_FusedListDeterministic ==
    /\ \A r \in RunsDone :
          /\ Len(query_runs[r].returned) = Min2(fusion_args.top_k, Cardinality(UnionIds))
          /\ \A p \in DOMAIN query_runs[r].returned :
                /\ query_runs[r].returned[p].chunk_id \in UnionIds
                /\ ExpectedPlace(query_runs[r].returned[p].chunk_id) = p
                /\ query_runs[r].returned[p].rank = p
                /\ query_runs[r].returned[p].score
                       = ExpectedCombined(query_runs[r].returned[p].chunk_id)
          /\ query_runs[r].completed = <<"vector", "bm25">>
    /\ \A r, q \in RunsDone : query_runs[r].returned = query_runs[q].returned

\* C24, witness: two runs of the same query overlapped (the one started first
\* finished last), both lists are non-empty, and two returned candidates have
\* the same combined score.
C24_Witness ==
    /\ RunsDone = QueryRuns
    /\ \E r \in QueryRuns : query_runs[r].started = 1 /\ query_runs[r].finished = MaxRuns
    /\ fusion_args.vector_results # <<>>
    /\ fusion_args.bm25_results # <<>>
    /\ \E r \in QueryRuns :
          \E p \in DOMAIN query_runs[r].returned :
             /\ p + 1 \in DOMAIN query_runs[r].returned
             /\ query_runs[r].returned[p].score = query_runs[r].returned[p + 1].score

(***************************************************************************)
(* Extractor: node ids across calls.                                       *)
(***************************************************************************)
\* The ids of the nodes a call returned.
NodeIdsOf(returned) == {returned.nodes[i].id : i \in DOMAIN returned.nodes}

\* The (source, target, type) triples of the relationships a call returned.
EdgeTriplesOf(returned) ==
    {<<returned.relationships[i].source_id,
       returned.relationships[i].target_id,
       returned.relationships[i].type>> : i \in DOMAIN returned.relationships}

\* C25: node ids are derived from the location of the entity, so when a call
\* extracts the file the call before it extracted, with the same parse
\* outcome, it returns the same set of node ids and the same set of
\* (source, target, type) edge triples.
C25_SameFileSameIds ==
    [][(/\ extract_call.made
        /\ extract_call'.made
        /\ extract_call'.file = extract_call.file
        /\ extract_call'.parses = extract_call.parses)
       => /\ NodeIdsOf(extract_call'.returned) = NodeIdsOf(extract_call.returned)
          /\ EdgeTriplesOf(extract_call'.returned) = EdgeTriplesOf(extract_call.returned)]_vars

(***************************************************************************)
(* Graph reranker: order, ranks and completeness of the output.            *)
(***************************************************************************)
\* C26: rerank_results returns its candidates in descending order of blended
\* score (the score field is the blended score), with ranks 1..n in that
\* order; no candidate left out has a higher score than a returned one; and
\* when top_k is at least the number of input candidates every input
\* candidate is in the output exactly once.
C26_SortedRankedComplete ==
    rerank_call.made =>
        /\ \A p \in DOMAIN rerank_call.returned :
              /\ rerank_call.returned[p].rank = p
              /\ rerank_call.returned[p].score = rerank_call.returned[p].metadata.combined_score
              /\ \A q \in DOMAIN rerank_call.returned :
                    p < q => RatLeq(rerank_call.returned[q].score, rerank_call.returned[p].score)
              /\ \A q \in (DOMAIN rerank_call.reranked) \ (DOMAIN rerank_call.returned) :
                    RatLeq(rerank_call.reranked[q].score, rerank_call.returned[p].score)
        /\ Len(rerank_call.returned) = Min2(rerank_call.top_k, Len(rerank_call.results))
        /\ rerank_call.top_k >= Len(rerank_call.results) =>
              \A i \in DOMAIN rerank_call.results :
                 Cardinality({p \in DOMAIN rerank_call.returned :
                                 rerank_call.returned[p].chunk = rerank_call.results[i].chunk}) = 1

\* C26, witness: two candidates, top_k covers both, and the blend put the
\* second input candidate strictly above the first.
C26_Witness ==
    /\ rerank_call.made
    /\ Len(rerank_call.results) = 2
    /\ rerank_call.top_k >= 2
    /\ Len(rerank_call.returned) = 2
    /\ rerank_call.returned[1].chunk = rerank_call.results[2].chunk
    /\ RatLess(rerank_call.returned[2].score, rerank_call.returned[1].score)

(***************************************************************************)
(* Graph reranker: the neighborhood query and the inheritance depth.       *)
(***************************************************************************)
\* The parents of a class id in the store.
StoredParents(data, id) ==
    {data.edges[i].target_id :
        i \in {j \in DOMAIN data.edges :
                  /\ data.edges[j].source_id = id
                  /\ data.edges[j].relationship_type = "INHERITS_FROM"}}

\* The number of edges of the longest INHERITS_FROM chain that starts at id
\* in the store; fuel bounds the chain by the number of stored edges.
RECURSIVE StoredChain(_, _, _)
StoredChain(data, id, fuel) ==
    IF fuel = 0 \/ StoredParents(data, id) = {}
    THEN 0
    ELSE 1 + MaxOfSet({StoredChain(data, parent, fuel - 1) :
                          parent \in StoredParents(data, id)}, 0)

\* C27: the neighborhood query of the reranker covers CALLS, DEFINED_IN,
\* CONTAINS, HAS_METHOD and INHERITS_FROM, and for a candidate whose stored
\* neighborhood holds a chain of k INHERITS_FROM edges, k at most 10, the
\* class_hierarchy_depth feature is k.
C27_InheritanceDepthIsChainLength ==
    rerank_call.made =>
        \A i \in Answered(rerank_call) :
           LET chunk_id == rerank_call.results[i].chunk.id
               data == rerank_call.stores[i]
               k == StoredChain(data, chunk_id, Len(data.edges))
           IN  /\ \A e \in Range(data.edges) :
                     (/\ e.relationship_type \in {"CALLS", "DEFINED_IN", "CONTAINS",
                                                   "HAS_METHOD", "INHERITS_FROM"}
                      /\ chunk_id \in {e.source_id, e.target_id})
                     => e \in Range(rerank_call.neighborhoods[i].edges)
               /\ k <= DepthCap =>
                     FeaturesOf(rerank_call, i).class_hierarchy_depth = RatInt(k)

(***************************************************************************)
(* Extractor: Class nodes and inheritance.                                 *)
(***************************************************************************)
\* The names the class captures of a file mention: classes and superclasses.
ClassNames(file) ==
    {file.classes[i].name : i \in DOMAIN file.classes}
    \cup ({file.classes[i].superclass : i \in DOMAIN file.classes} \ {""})

\* The positions of the INHERITS_FROM edges in the returned relationship list.
InheritsEdges ==
    {i \in DOMAIN extract_call.returned.relationships :
        extract_call.returned.relationships[i].type = "INHERITS_FROM"}

\* C28: whatever the order of a class and its subclasses in the file, the
\* returned nodes hold at most one Class node per class name, and every
\* INHERITS_FROM edge goes from the Class node of a subclass to the one
\* Class node that carries the name of its superclass.
C28_OneClassNodePerName ==
    extract_call.made =>
        /\ \A name \in ClassNames(extract_call.file) :
              Cardinality(ReturnedIds("Class", name)) <= 1
        /\ \A i \in InheritsEdges :
              \E c \in Range(extract_call.file.classes) :
                 /\ c.superclass # ""
                 /\ extract_call.returned.relationships[i].source_id
                        \in ReturnedIds("Class", c.name)
                 /\ ReturnedIds("Class", c.superclass)
                        = {extract_call.returned.relationships[i].target_id}

(***************************************************************************)
(* Query path: graph context after a failed graph query.                   *)
(***************************************************************************)
\* The places of the fused list the enhancement works on: all of them when
\* use_graph is set.
Enhanced(call) == IF call.use_graph THEN DOMAIN FusedOfRemaining(call) ELSE {}

\* C29: when the graph query fails for one candidate, _enhance_with_graph
\* goes on: every candidate whose own graph query answers carries the graph
\* context of its neighborhood, also after a failed one, and the returned
\* list has the candidates, order, scores and ranks of the fused list.
C29_EnhancementContinuesAfterFailure ==
    search_call.made =>
        LET fused == FusedOfRemaining(search_call)
        IN  /\ Len(search_call.returned) = Len(fused)
            /\ \A p \in DOMAIN fused :
                  /\ search_call.returned[p].chunk_id = fused[p].chunk_id
                  /\ search_call.returned[p].score = fused[p].score
                  /\ search_call.returned[p].rank = fused[p].rank
            /\ \A p \in Enhanced(search_call) :
                  fused[p].chunk_id \notin search_call.graph_down =>
                      /\ HasGraphContext(search_call.returned[p])
                      /\ search_call.returned[p].metadata.graph_context
                             = GraphContext(RelatedChunks(fused[p].chunk_id))

(***************************************************************************)
(* Graph reranker: the blend as a function of the graph score.             *)
(***************************************************************************)
\* C30: among candidates with the same score before the blend, a higher
\* graph score never gives a lower blended score, also when the two graph
\* scores lie on different sides of the rerank threshold.
C30_BlendMonotoneInGraphScore ==
    rerank_call.made =>
        \A p, q \in DOMAIN rerank_call.reranked :
           (/\ rerank_call.reranked[p].original_score = rerank_call.reranked[q].original_score
            /\ RatLeq(rerank_call.reranked[p].metadata.graph_score,
                      rerank_call.reranked[q].metadata.graph_score))
           => RatLeq(rerank_call.reranked[p].score, rerank_call.reranked[q].score)

====
